---- MODULE Spec2Model ----
(***************************************************************************)
(* A model of the extraction pipeline and the knowledge store of the       *)
(* Thesisv2 repository:                                                    *)
(*   - LLMOrchestrator      (src/finder_system/llm_orchestrator.py)        *)
(*   - the provider adapters and the JSON repair parser                    *)
(*                          (src/finder_system/llm_extractor/adapter/)     *)
(*   - _combine_chunk_results / merge_crop_data                            *)
(*                          (src/finder_system/llm_extractor/              *)
(*                           llm_interface.py)                             *)
(*   - CropStore.load_all   (src/chatbot/crop_store.py)                    *)
(* Each subsystem has its own specification (SpecOrch, SpecParse, ...);    *)
(* the variables of the other subsystems stay at their idle values.        *)
(***************************************************************************)
EXTENDS Integers, Sequences, FiniteSets, TLC

VARIABLES
    \* ---- LLMOrchestrator ------------------------------------------------
    providers,               \* self.providers: the ordered adapter pool
    strategy,                \* self.strategy
    current_provider_index,  \* self.current_provider_index
    available,               \* the adapters whose is_available() is true now
    behaviour,               \* what each adapter's extract_from_chunks does
    pc,                      \* "idle" | "loop" | "done": position in the call
    max_retries,             \* the argument of the running call
    attempts,                \* local of extract_from_chunks
    last_error,              \* local of extract_from_chunks
    result,                  \* the value the last call returned
    calls,                   \* number of extract_from_chunks calls started
    entry,                   \* pool and availability at entry of the call
    invocations,             \* the adapter invocations of the running call
    failed,                  \* the adapters an attempt of which has failed
    \* ---- parsing one model output --------------------------------------
    padapter,                \* the adapter whose extract_from_text parses
    porigin,                 \* how the output text was made (for the claims)
    ptext,                   \* response_text
    pstage,                  \* the parse step that runs next, or "done"
    ptried,                  \* the parse steps run so far, in order
    presult,                 \* the parsed value or the malformed-output failure
    \* ---- one adapter's extract_from_chunks ------------------------------
    aadapter,                \* the adapter
    aavailable,              \* is_available() at the entry of the batch
    acombine,                \* combine_results
    achunks,                 \* per chunk, what the backend does with it
    aidx,                    \* the chunk the loop is at
    aextractions,            \* what extract_from_text returned, per chunk
    aresults,                \* results
    apc,                     \* "start", "loop" or "done"
    abatch,                  \* what the batch call gave its caller
    \* ---- _combine_chunk_results ------------------------------------------
    fragments,               \* the crops met so far in the chunk results, in order
    crops_dict,              \* crops_dict, as its (key, record) items in order
    crops_list,              \* the 'crops' of the combined data
    combine_pc,              \* "loop" or "done"
    \* ---- CropStore --------------------------------------------------------
    docs,                    \* the parent crop documents of the mergeddata collection
    has_api_key,             \* GOOGLE_API_KEY is set
    embeddings_cache,        \* the documents of the embeddings collection
    loaded,                  \* self.loaded
    crop_index,              \* self.crop_index with self.crop_texts, items in order
    crop_embeddings,         \* self.crop_embeddings: per key where the vector is from
    embedding_search_available,
    load_result,             \* what the last load_all call returned, -1 before
    cached,                  \* what _load_cached_embeddings returned to the load
    embed_calls,             \* the keys whose text the load passed to _embed_text
    cache_upserts,           \* the keys the load passed to _cache_embedding
    last_call,               \* the last call of a public method and what it gave
    \* --- TextProcessor.segment_text (finder_system/text_processor.py) ---
    seg_text,                \* the text handed to segment_text, a sequence of characters
    seg_size,                \* the max_chunk_size argument
    seg_chunks,              \* the list segment_text returned
    seg_pc,                  \* "call" before segment_text ran, "done" after
    \* --- RAGEngine (chatbot/rag_engine.py) ---
    client,                  \* self.client is not None: the default generation adapter
    genai_key,               \* the credential the genai module was last configured with
    query_embed_key,         \* the credential the query embedding of the last chat went out under
    chat_args,               \* the arguments of the last chat call
    generation,              \* the adapter the last chat called generate_content on
    response                 \* what the last chat call returned

orchVars == <<providers, strategy, current_provider_index, available,
              behaviour, pc, max_retries, attempts, last_error, result,
              calls, entry, invocations, failed>>

parseVars == <<padapter, porigin, ptext, pstage, ptried, presult>>

adapterVars == <<aadapter, aavailable, acombine, achunks, aidx, aextractions,
                 aresults, apc, abatch>>

aggVars == <<fragments, crops_dict, crops_list, combine_pc>>

storeVars == <<docs, has_api_key, embeddings_cache, loaded, crop_index, crop_embeddings,
               embedding_search_available, load_result, cached, embed_calls,
               cache_upserts, last_call>>

segVars == <<seg_text, seg_size, seg_chunks, seg_pc>>

ragVars == <<client, genai_key, query_embed_key, chat_args, generation, response>>

vars == <<orchVars, parseVars, adapterVars, aggVars, storeVars, segVars, ragVars>>

\* what the actions of one subsystem leave alone
restOfOrch == <<parseVars, adapterVars, aggVars, storeVars, segVars, ragVars>>
restOfParse == <<orchVars, adapterVars, aggVars, storeVars, segVars, ragVars>>
restOfAdapter == <<orchVars, parseVars, aggVars, storeVars, segVars, ragVars>>
restOfAgg == <<orchVars, parseVars, adapterVars, storeVars, segVars, ragVars>>
restOfStore == <<orchVars, parseVars, adapterVars, aggVars, segVars, ragVars>>
restOfSeg == <<orchVars, parseVars, adapterVars, aggVars, storeVars, ragVars>>
restOfRag == <<orchVars, parseVars, adapterVars, aggVars, storeVars, segVars>>

(***************************************************************************)
(* General helpers.                                                        *)
(***************************************************************************)
Range(s) == {s[i] : i \in 1..Len(s)}

\* [x for x in s if Keep(x)]
RECURSIVE SelectSeqIn(_, _)
SelectSeqIn(s, S) ==
    IF s = <<>> THEN <<>>
    ELSE IF Head(s) \in S THEN <<Head(s)>> \o SelectSeqIn(Tail(s), S)
         ELSE SelectSeqIn(Tail(s), S)

\* list.remove(x): drops the first occurrence of x
RECURSIVE RemoveFirst(_, _)
RemoveFirst(s, x) ==
    IF s = <<>> THEN <<>>
    ELSE IF Head(s) = x THEN Tail(s)
         ELSE <<Head(s)>> \o RemoveFirst(Tail(s), x)

\* the sequences over S without repetition
RECURSIVE DistinctSeqs(_)
DistinctSeqs(S) ==
    {<<>>} \cup UNION {{<<x>> \o t : t \in DistinctSeqs(S \ {x})} : x \in S}

(***************************************************************************)
(* LLMOrchestrator                                                         *)
(***************************************************************************)
\* An adapter instance is identified with its get_provider_name(); a pool
\* holds each adapter at most once (what _auto_configure_providers and
\* create_orchestrator build).
Adapters == {"claude", "gemini", "ollama"}

Strategies == {"failover", "round_robin", "cost_optimized", "performance"}

\* self.provider_priority
provider_priority(s) ==
    IF s = "cost_optimized" THEN <<"ollama", "gemini", "claude">>
    ELSE <<"claude", "gemini", "ollama">>

\* what one adapter.extract_from_chunks invocation can do: return a result
\* with success=True, return one with success=False, or raise
Outcomes == {"ok", "fail", "raise"}

\* the largest max_retries argument the model passes
MaxRetriesArg == 2

\* the number of extract_from_chunks calls made on one Orchestrator
MaxCalls == 2

NoError == [kind |-> "none", by |-> "none"]
NoResult == [success |-> FALSE, provider |-> "unset", error |-> NoError]
NoEntry == [pool |-> <<>>, avail |-> {}, failed |-> {}, stable |-> TRUE]

\* get_available_providers
get_available_providers(pool, avail) == SelectSeqIn(pool, avail)

\* the first adapter of `avail_list` named by the priority list, else the first
RECURSIVE FirstByPriority(_, _)
FirstByPriority(prio, avail_list) ==
    IF prio = <<>> THEN avail_list[1]
    ELSE IF Head(prio) \in Range(avail_list) THEN Head(prio)
         ELSE FirstByPriority(Tail(prio), avail_list)

\* _get_next_provider: the adapter it returns ("none" for None)
get_next_provider(pool, avail, strat, cursor) ==
    LET a == get_available_providers(pool, avail) IN
    IF a = <<>> THEN "none"
    ELSE IF strat = "failover" THEN a[1]
    ELSE IF strat = "round_robin" THEN a[(cursor % Len(a)) + 1]
    ELSE FirstByPriority(provider_priority(strat), a)

\* _get_next_provider: the cursor it leaves
next_cursor(pool, avail, strat, cursor) ==
    IF get_available_providers(pool, avail) # <<>> /\ strat = "round_robin"
    THEN cursor + 1 ELSE cursor

\* an entry check that looks at the pool instead of the availability
PoolIsEmpty(pool, avail) == pool = <<>>

\* the entry check of line 185: `not available_providers`
NoneAvailable(pool, avail) == get_available_providers(pool, avail) = <<>>

\* the ChunkExtractionResult of line 186
NoProvidersAvailable ==
    [success |-> FALSE, provider |-> "none",
     error |-> [kind |-> "no_providers", by |-> "none"]]

\* the ChunkExtractionResult of line 228
AllFailed(err) == [success |-> FALSE, provider |-> "multiple", error |-> err]

\* the pool after an adapter returned a failure result (lines 214-217)
PoolAfterFailure(pool, strat, p) ==
    IF strat = "failover" /\ p \in Range(pool) THEN RemoveFirst(pool, p) ELSE pool

\* the pool after an adapter raised (lines 222-225): nothing is removed
PoolAfterException(pool, strat, p) == pool

\* an exception that leaves the attempt uncounted
AttemptsUncounted(n) == n

\* `attempts` after an adapter raised (line 225)
AttemptsAfterException(n) == n + 1

\* `attempts` after an adapter returned a failure result (lines 214-220):
\* counted under failover only, the other strategies break
AttemptsAfterFailure(strat, n) == IF strat = "failover" THEN n + 1 ELSE n

\* the other subsystems at rest
ParseIdle ==
    /\ padapter = "gemini"
    /\ porigin = [kind |-> "raw", full |-> <<>>, cut |-> 0]
    /\ ptext = <<>>
    /\ pstage = "done"
    /\ ptried = <<>>
    /\ presult = [status |-> "pending", v |-> [t |-> "none", v |-> <<>>]]

NoBatch == [kind |-> "none", success |-> FALSE, error |-> "",
            total_chunks_processed |-> 0, aggregated |-> <<>>]

AdapterIdle ==
    /\ aadapter = "gemini"
    /\ aavailable = FALSE
    /\ acombine = TRUE
    /\ achunks = <<>>
    /\ aidx = 1
    /\ aextractions = <<>>
    /\ aresults = <<>>
    /\ apc = "done"
    /\ abatch = NoBatch

AggIdle ==
    /\ fragments = <<>>
    /\ crops_dict = <<>>
    /\ crops_list = <<>>
    /\ combine_pc = "done"

\* the record of a call of a public CropStore method, before any call
NoCall == [op |-> "none", arg |-> <<>>, top_k |-> 0, queries |-> 0, embeds |-> 0,
           embed_query |-> "unused", pass |-> "none", ran |-> <<>>,
           vector_results |-> <<>>, scored |-> <<>>,
           results |-> <<>>, value |-> <<>>]

\* a CropStore just constructed over an empty collection
StoreIdle ==
    /\ docs = <<>>
    /\ has_api_key = FALSE
    /\ embeddings_cache = {}
    /\ loaded = FALSE
    /\ crop_index = <<>>
    /\ crop_embeddings = {}
    /\ embedding_search_available = FALSE
    /\ load_result = -1
    /\ cached = {}
    /\ embed_calls = {}
    /\ cache_upserts = {}
    /\ last_call = NoCall

\* the response of a chat call, before any call; a key the returned
\* dictionary does not have is None
NoResponse == [answer |-> [lead |-> "none", error |-> <<>>, hint |-> FALSE,
                           context |-> <<>>],
               crops_used |-> <<>>, context |-> <<>>, has_context |-> FALSE,
               llm_used |-> "<None>", error |-> <<"<None>">>]

NoChat == [query |-> <<>>, include_context |-> FALSE, api_key |-> "<None>"]

\* no RAGEngine at work
RagIdle ==
    /\ client = FALSE
    /\ genai_key = "none"
    /\ query_embed_key = "unused"
    /\ chat_args = NoChat
    /\ generation = [adapter |-> "none", ok |-> FALSE, error |-> <<>>]
    /\ response = NoResponse

\* no text is being segmented
SegIdle ==
    /\ seg_text = <<>>
    /\ seg_size = 0
    /\ seg_chunks = <<>>
    /\ seg_pc = "done"

OrchInit ==
    /\ providers \in DistinctSeqs(Adapters)
    /\ strategy \in Strategies
    /\ current_provider_index = 0
    \* only the adapters of the pool are ever probed or invoked
    /\ available \in SUBSET Range(providers)
    /\ behaviour \in [Adapters -> Outcomes]
    /\ \A a \in Adapters \ Range(providers) : behaviour[a] = "ok"
    /\ pc = "idle"
    /\ max_retries = 0
    /\ attempts = 0
    /\ last_error = NoError
    /\ result = NoResult
    /\ calls = 0
    /\ entry = NoEntry
    /\ invocations = <<>>
    /\ failed = {}
    /\ ParseIdle
    /\ AdapterIdle
    /\ AggIdle
    /\ StoreIdle
    /\ SegIdle
    /\ RagIdle

OrchIdle ==
    /\ providers = <<>>
    /\ strategy = "failover"
    /\ current_provider_index = 0
    /\ available = {}
    /\ behaviour = [a \in Adapters |-> "ok"]
    /\ pc = "idle"
    /\ max_retries = 0
    /\ attempts = 0
    /\ last_error = NoError
    /\ result = NoResult
    /\ calls = 0
    /\ entry = NoEntry
    /\ invocations = <<>>
    /\ failed = {}

\* extract_from_chunks, lines 183-194: the entry check
StartCall ==
    /\ pc \in {"idle", "done"}
    /\ calls < MaxCalls
    /\ \E mr \in 0..MaxRetriesArg :
        /\ max_retries' = mr
        /\ calls' = calls + 1
        /\ entry' = [pool |-> providers, avail |-> available,
                      failed |-> failed, stable |-> TRUE]
        /\ attempts' = 0
        /\ last_error' = NoError
        /\ invocations' = <<>>
        /\ IF NoneAvailable(providers, available)
           THEN /\ pc' = "done"
                /\ result' = NoProvidersAvailable
           ELSE /\ pc' = "loop"
                /\ result' = NoResult
    /\ UNCHANGED <<providers, strategy, current_provider_index, available,
                   behaviour, failed>>
    /\ UNCHANGED restOfOrch

\* one iteration of the while loop of lines 196-225, and the return of line
\* 228 when the loop ends with it
Attempt ==
    /\ pc = "loop"
    /\ attempts <= max_retries
    /\ LET p == get_next_provider(providers, available, strategy,
                                  current_provider_index)
           o == behaviour[p]
           err == IF o = "fail" THEN [kind |-> "result", by |-> p]
                  ELSE [kind |-> "exception", by |-> p]
           brk == o = "fail" /\ strategy # "failover"
           att == IF o = "fail" THEN AttemptsAfterFailure(strategy, attempts)
                  ELSE AttemptsAfterException(attempts)
       IN
       /\ current_provider_index' =
             next_cursor(providers, available, strategy, current_provider_index)
       /\ IF p = "none"
          THEN \* line 199: break
               /\ pc' = "done"
               /\ result' = AllFailed(last_error)
               /\ UNCHANGED <<providers, attempts, last_error, invocations,
                              failed>>
          ELSE /\ invocations' = Append(invocations,
                       [adapter |-> p, outcome |-> o,
                        failed_before |-> p \in failed])
               /\ IF o = "ok"
                  THEN /\ pc' = "done"
                       /\ result' = [success |-> TRUE, provider |-> p,
                                     error |-> NoError]
                       /\ UNCHANGED <<providers, attempts, last_error, failed>>
                  ELSE /\ last_error' = err
                       /\ failed' = failed \cup {p}
                       /\ attempts' = att
                       /\ providers' =
                             IF o = "fail"
                             THEN PoolAfterFailure(providers, strategy, p)
                             ELSE PoolAfterException(providers, strategy, p)
                       /\ IF brk \/ att > max_retries
                          THEN pc' = "done" /\ result' = AllFailed(err)
                          ELSE pc' = "loop" /\ result' = result
    /\ UNCHANGED <<strategy, available, behaviour, max_retries, calls, entry>>
    /\ UNCHANGED restOfOrch

\* OllamaAdapter.is_available probes the local daemon on every call, so its
\* answer can change at any moment; Claude's and Gemini's is fixed by the
\* constructor
OllamaAvailabilityChanges ==
    /\ "ollama" \in Range(providers)
    /\ available' = IF "ollama" \in available THEN available \ {"ollama"}
                    ELSE available \cup {"ollama"}
    /\ entry' = IF pc = "loop" THEN [entry EXCEPT !.stable = FALSE] ELSE entry
    /\ UNCHANGED <<providers, strategy, current_provider_index, behaviour, pc,
                   max_retries, attempts, last_error, result, calls,
                   invocations, failed>>
    /\ UNCHANGED restOfOrch

OrchNext == StartCall \/ Attempt \/ OllamaAvailabilityChanges

SpecOrch == OrchInit /\ [][OrchNext]_vars

\* the interpreter runs a call that has begun: an iteration of the loop is
\* taken whenever one is due
SpecOrchFair == SpecOrch /\ WF_vars(Attempt)

(***************************************************************************)
(* Model-output texts and json.loads                                       *)
(*                                                                         *)
(* A text is a sequence of symbols.  The symbols are the JSON punctuation, *)
(* one letter, one digit, one whitespace character, and two multi-character*)
(* tokens that the code only ever handles as a whole: FENCE stands for the *)
(* three backticks of a markdown fence and JSONTAG for the word json that  *)
(* may follow it (so text[7:] drops the two symbols FENCE JSONTAG and      *)
(* text[3:] drops FENCE).  The alphabet has no backslash, so the escape    *)
(* handling of repair_json (lines 52-57) never triggers.                   *)
(***************************************************************************)
Q == "\""
FENCE == "F"
JSONTAG == "j"
WS == " "
Sym == {"{", "}", "[", "]", Q, ":", ",", "a", "1", WS, FENCE, JSONTAG}

\* s[i], or "EOF" outside the text
At(s, i) == IF i >= 1 /\ i <= Len(s) THEN s[i] ELSE "EOF"

\* text[a-1:b] in 1-based inclusive positions, empty when b < a
Slice(s, a, b) == IF b < a THEN <<>> ELSE SubSeq(s, a, b)

StartsWith(s, pat) == Len(s) >= Len(pat) /\ SubSeq(s, 1, Len(pat)) = pat
EndsWith(s, pat) ==
    Len(s) >= Len(pat) /\ SubSeq(s, Len(s) - Len(pat) + 1, Len(s)) = pat

\* str.find(pat, from): the first position >= from where pat starts, 0 if none
RECURSIVE Find(_, _, _)
Find(s, pat, from) ==
    IF from + Len(pat) - 1 > Len(s) THEN 0
    ELSE IF SubSeq(s, from, from + Len(pat) - 1) = pat THEN from
    ELSE Find(s, pat, from + 1)

\* str.rfind(c): the last position of symbol c, 0 if none
RECURSIVE RFind(_, _, _)
RFind(s, c, from) ==
    IF from < 1 THEN 0 ELSE IF s[from] = c THEN from ELSE RFind(s, c, from - 1)

\* str.count(c) for a single symbol
RECURSIVE Count(_, _)
Count(s, c) ==
    IF s = <<>> THEN 0
    ELSE (IF Head(s) = c THEN 1 ELSE 0) + Count(Tail(s), c)

\* c * n for a single symbol (the empty text when n <= 0)
RECURSIVE Repeat(_, _)
Repeat(c, n) == IF n <= 0 THEN <<>> ELSE <<c>> \o Repeat(c, n - 1)

RECURSIVE LStrip(_)
LStrip(s) == IF s # <<>> /\ Head(s) = WS THEN LStrip(Tail(s)) ELSE s

RECURSIVE RStrip(_)
RStrip(s) ==
    IF s # <<>> /\ s[Len(s)] = WS THEN RStrip(SubSeq(s, 1, Len(s) - 1)) ELSE s

\* str.strip()
Strip(s) == RStrip(LStrip(s))

\* the first position >= i that holds no whitespace
RECURSIVE SkipWs(_, _)
SkipWs(s, i) == IF At(s, i) = WS THEN SkipWs(s, i + 1) ELSE i

\* the first position >= i that holds no digit
RECURSIVE SkipDigits(_, _)
SkipDigits(s, i) == IF At(s, i) = "1" THEN SkipDigits(s, i + 1) ELSE i

\* Parsed JSON values: a tag and a sequence (digits, string symbols, array
\* elements, or <<key, value>> pairs of an object in insertion order).
JNum(ds) == [t |-> "num", v |-> ds]
JStr(cs) == [t |-> "str", v |-> cs]
JArr(vs) == [t |-> "arr", v |-> vs]
JObj(ms) == [t |-> "obj", v |-> ms]
NoValue == [t |-> "none", v |-> <<>>]

IsDict(v) == v.t = "obj"

\* dict[k] = x: an existing key keeps its place and takes the new value
RECURSIVE DictPut(_, _, _)
DictPut(ms, k, x) ==
    IF ms = <<>> THEN << <<k, x>> >>
    ELSE IF Head(ms)[1] = k THEN << <<k, x>> >> \o Tail(ms)
    ELSE <<Head(ms)>> \o DictPut(Tail(ms), k, x)

ParseFail == [ok |-> FALSE, v |-> NoValue, p |-> 0]

\* a run of opening square brackets longer than the nesting the interpreter
\* allows json.loads (sys.getrecursionlimit()), as one symbol; the texts that
\* hold it begin with it
DEEP == "D"

\* RecursionError out of json.loads, which is no json.JSONDecodeError
TooDeep == [ok |-> FALSE, v |-> [t |-> "recursion", v |-> <<>>], p |-> 0]
Raised(r) == ~r.ok /\ r.v.t = "recursion"
ParseOk(x, next) == [ok |-> TRUE, v |-> x, p |-> next]

\* a string literal at position i (s[i] is the opening quote)
ParseString(s, i) ==
    LET j == Find(s, <<Q>>, i + 1) IN
    IF j = 0 THEN ParseFail ELSE ParseOk(JStr(Slice(s, i + 1, j - 1)), j + 1)

\* the JSON value that starts at position i
RECURSIVE ParseValue(_, _)
RECURSIVE ParseElems(_, _, _)
RECURSIVE ParseMembers(_, _, _)
ParseValue(s, i) ==
    LET c == At(s, i) IN
    IF c = Q THEN ParseString(s, i)
    ELSE IF c = "1"
    THEN ParseOk(JNum(Slice(s, i, SkipDigits(s, i) - 1)), SkipDigits(s, i))
    ELSE IF c = DEEP THEN TooDeep
    ELSE IF c = "["
    THEN LET j == SkipWs(s, i + 1) IN
         IF At(s, j) = "]" THEN ParseOk(JArr(<<>>), j + 1)
         ELSE ParseElems(s, j, <<>>)
    ELSE IF c = "{"
    THEN LET j == SkipWs(s, i + 1) IN
         IF At(s, j) = "}" THEN ParseOk(JObj(<<>>), j + 1)
         ELSE ParseMembers(s, j, <<>>)
    ELSE ParseFail

\* the elements of an array, i at the start of the next element
ParseElems(s, i, acc) ==
    LET r == ParseValue(s, i) IN
    IF ~r.ok THEN r
    ELSE LET j == SkipWs(s, r.p)
             acc2 == Append(acc, r.v)
         IN IF At(s, j) = "]" THEN ParseOk(JArr(acc2), j + 1)
            ELSE IF At(s, j) = "," THEN ParseElems(s, SkipWs(s, j + 1), acc2)
            ELSE ParseFail

\* the members of an object, i where the next key must start
ParseMembers(s, i, acc) ==
    IF At(s, i) # Q THEN ParseFail
    ELSE LET k == ParseString(s, i) IN
    IF ~k.ok THEN ParseFail
    ELSE LET j == SkipWs(s, k.p) IN
    IF At(s, j) # ":" THEN ParseFail
    ELSE LET r == ParseValue(s, SkipWs(s, j + 1)) IN
    IF ~r.ok THEN r
    ELSE LET acc2 == DictPut(acc, k.v.v, r.v)
             j2 == SkipWs(s, r.p)
         IN IF At(s, j2) = "}" THEN ParseOk(JObj(acc2), j2 + 1)
            ELSE IF At(s, j2) = "," THEN ParseMembers(s, SkipWs(s, j2 + 1), acc2)
            ELSE ParseFail

\* json.loads: one value, whitespace around it, nothing else; ok = FALSE is
\* json.JSONDecodeError (ParseFail) or RecursionError (TooDeep)
json_loads(s) ==
    LET r == ParseValue(s, SkipWs(s, 1)) IN
    IF r.ok /\ SkipWs(s, r.p) = Len(s) + 1 THEN r
    ELSE IF Raised(r) THEN r
    ELSE ParseFail


\* json.dumps with separators (',', ':'): the compact text of a value
RECURSIVE Dumps(_)
RECURSIVE DumpElems(_)
RECURSIVE DumpMembers(_)
Dumps(x) ==
    IF x.t = "num" THEN x.v
    ELSE IF x.t = "str" THEN <<Q>> \o x.v \o <<Q>>
    ELSE IF x.t = "arr" THEN <<"[">> \o DumpElems(x.v) \o <<"]">>
    ELSE <<"{">> \o DumpMembers(x.v) \o <<"}">>

DumpElems(vs) ==
    IF vs = <<>> THEN <<>>
    ELSE IF Len(vs) = 1 THEN Dumps(vs[1])
    ELSE Dumps(vs[1]) \o <<",">> \o DumpElems(Tail(vs))

DumpMembers(ms) ==
    IF ms = <<>> THEN <<>>
    ELSE LET m == <<Q>> \o ms[1][1] \o <<Q, ":">> \o Dumps(ms[1][2]) IN
         IF Len(ms) = 1 THEN m ELSE m \o <<",">> \o DumpMembers(Tail(ms))

\* equality of two parsed values (of objects: same members in the same order)
SameValue(x, y) == x.t = y.t /\ Dumps(x) = Dumps(y)

(***************************************************************************)
(* repair_json and safe_json_parse (gemini_adapter.py)                     *)
(***************************************************************************)
\* repair_json, lines 29-38: strip, drop an opening and a closing fence
StripFence(text) ==
    LET t1 == Strip(text)
        t2 == IF StartsWith(t1, <<FENCE, JSONTAG>>) THEN Slice(t1, 3, Len(t1))
              ELSE IF StartsWith(t1, <<FENCE>>) THEN Slice(t1, 2, Len(t1))
              ELSE t1
        t3 == IF EndsWith(t2, <<FENCE>>) THEN Slice(t2, 1, Len(t2) - 1) ELSE t2
    IN Strip(t3)

\* repair_json, lines 46-68: the position of the brace that closes the object
\* opened at start_idx, braces inside string literals ignored; 0 for -1
RECURSIVE MatchingBrace(_, _, _, _)
MatchingBrace(s, i, bracket_count, in_string) ==
    IF i > Len(s) THEN 0
    ELSE IF s[i] = Q THEN MatchingBrace(s, i + 1, bracket_count, ~in_string)
    ELSE IF ~in_string /\ s[i] = "{"
    THEN MatchingBrace(s, i + 1, bracket_count + 1, in_string)
    ELSE IF ~in_string /\ s[i] = "}"
    THEN IF bracket_count - 1 = 0 THEN i
         ELSE MatchingBrace(s, i + 1, bracket_count - 1, in_string)
    ELSE MatchingBrace(s, i + 1, bracket_count, in_string)

\* repair_json, lines 75-81: append the closers the counts say are missing
AppendClosers(u) ==
    u \o Repeat("]", Count(u, "[") - Count(u, "]"))
      \o Repeat("}", Count(u, "{") - Count(u, "}"))

\* re.sub(r',\s*([}\]])', r'\1', text), line 86
RECURSIVE SubTrailingComma(_)
SubTrailingComma(s) ==
    IF s = <<>> THEN <<>>
    ELSE IF Head(s) = "," /\ At(s, SkipWs(s, 2)) \in {"}", "]"}
    THEN <<At(s, SkipWs(s, 2))>>
             \o SubTrailingComma(Slice(s, SkipWs(s, 2) + 1, Len(s)))
    ELSE <<Head(s)>> \o SubTrailingComma(Tail(s))

\* re.sub(c1 \s* c2, c1 "," c2, text), lines 93-95
RECURSIVE SubInsertComma(_, _, _)
SubInsertComma(s, c1, c2) ==
    IF s = <<>> THEN <<>>
    ELSE IF Head(s) = c1 /\ At(s, SkipWs(s, 2)) = c2
    THEN <<c1, ",", c2>>
             \o SubInsertComma(Slice(s, SkipWs(s, 2) + 1, Len(s)), c1, c2)
    ELSE <<Head(s)>> \o SubInsertComma(Tail(s), c1, c2)

\* re.sub(r'(null|true|false|\d+)\s*"', r'\1,"', text), line 98 (the alphabet
\* has digits only)
RECURSIVE SubCommaAfterNumber(_)
SubCommaAfterNumber(s) ==
    IF s = <<>> THEN <<>>
    ELSE IF Head(s) = "1"
    THEN LET e == SkipDigits(s, 1)
             j == SkipWs(s, e)
         IN IF At(s, j) = Q
            THEN Slice(s, 1, e - 1) \o <<",", Q>>
                     \o SubCommaAfterNumber(Slice(s, j + 1, Len(s)))
            ELSE Slice(s, 1, e - 1) \o SubCommaAfterNumber(Slice(s, e, Len(s)))
    ELSE <<Head(s)>> \o SubCommaAfterNumber(Tail(s))

\* repair_json, lines 83-98: the regular-expression fixes, in order
RegexFixes(s) ==
    SubCommaAfterNumber(
        SubInsertComma(
            SubInsertComma(
                SubInsertComma(SubTrailingComma(s), "}", "{"),
                "]", "["),
            Q, Q))

\* repair_json
repair_json(text) ==
    LET t == StripFence(text)
        start_idx == Find(t, <<"{">>, 1)
    IN IF start_idx = 0 THEN t
       ELSE LET end_idx == MatchingBrace(t, start_idx, 0, FALSE) IN
            RegexFixes(IF end_idx > start_idx THEN Slice(t, start_idx, end_idx)
                       ELSE AppendClosers(Slice(t, start_idx, Len(t))))

\* safe_json_parse, Strategy 1 (lines 117-120)
Strategy1(text) == json_loads(text)

\* safe_json_parse, Strategy 2 (lines 123-127)
Strategy2(text) == json_loads(repair_json(text))

\* safe_json_parse, Strategy 3 (lines 130-142)
Strategy3(text) ==
    IF Find(text, <<FENCE>>, 1) = 0 THEN ParseFail
    ELSE LET tagged == Find(text, <<FENCE, JSONTAG>>, 1)
             json_start == IF tagged # 0 THEN tagged + 2
                           ELSE Find(text, <<FENCE>>, 1) + 1
             json_end == Find(text, <<FENCE>>, json_start)
         IN IF json_end > json_start
            THEN json_loads(repair_json(
                     Strip(Slice(text, json_start, json_end - 1))))
            ELSE ParseFail

\* safe_json_parse, lines 150-158: the candidates text[start:end] for end
\* from len(text) down, the first that repairs and parses to a dict
RECURSIVE ShorterCandidates(_, _, _)
ShorterCandidates(text, start, end) ==
    IF end < start THEN ParseFail
    ELSE LET r == json_loads(repair_json(Slice(text, start, end))) IN
         \* the bare except of line 157 catches whatever a candidate raises
         IF r.ok /\ IsDict(r.v) THEN r
         ELSE ShorterCandidates(text, start, end - 1)

\* safe_json_parse, Strategy 4 (lines 145-160)
Strategy4(text) ==
    LET start == Find(text, <<"{">>, 1) IN
    IF start = 0 THEN ParseFail ELSE ShorterCandidates(text, start, Len(text))


(***************************************************************************)
(* The adapters' parsing of one model output (extract_from_text)           *)
(***************************************************************************)
\* response_text[json_start:-1]: the last character goes; of a multi-character
\* token a fragment stays, which like a letter is valid only inside a string
DropLastChar(s) ==
    IF s = <<>> THEN <<>>
    ELSE IF s[Len(s)] \in {FENCE, JSONTAG}
    THEN Slice(s, 1, Len(s) - 1) \o <<"a">>
    ELSE Slice(s, 1, Len(s) - 1)

HasJsonFence(text) == Find(text, <<FENCE, JSONTAG>>, 1) # 0

\* claude_adapter.py lines 106-110 and ollama_adapter.py lines 121-125: the
\* text between the json fence and the next fence, parsed as it is
FenceJson(text) ==
    LET json_start == Find(text, <<FENCE, JSONTAG>>, 1) + 2
        json_end == Find(text, <<FENCE>>, json_start)
    IN json_loads(Strip(IF json_end # 0
                        THEN Slice(text, json_start, json_end - 1)
                        ELSE DropLastChar(Slice(text, json_start, Len(text)))))

HasBraces(text) == Find(text, <<"{">>, 1) # 0 /\ Find(text, <<"}">>, 1) # 0

\* ollama_adapter.py lines 126-131: from the first "{" to the last "}"
BraceSpan(text) ==
    json_loads(Slice(text, Find(text, <<"{">>, 1), RFind(text, "}", Len(text))))

\* the step that follows a failed step of the adapter's chain ("malformed":
\* json.JSONDecodeError leaves the chain)
NextStage(adapter, stage, text) ==
    IF adapter = "gemini"
    THEN IF stage = "strict" THEN "repair"
         ELSE IF stage = "repair" THEN "fence"
         ELSE IF stage = "fence" THEN "shorter"
         ELSE "malformed"
    ELSE IF stage = "strict"
    THEN IF HasJsonFence(text) THEN "fence_json"
         ELSE IF adapter = "ollama" /\ HasBraces(text) THEN "brace_span"
         ELSE "malformed"
    ELSE "malformed"

\* what one step of a chain computes
RunStage(stage, text) ==
    IF stage = "strict" THEN Strategy1(text)
    ELSE IF stage = "repair" THEN Strategy2(text)
    ELSE IF stage = "fence" THEN Strategy3(text)
    ELSE IF stage = "shorter" THEN Strategy4(text)
    ELSE IF stage = "fence_json" THEN FenceJson(text)
    ELSE BraceSpan(text)

\* the result of a step, or of what follows it when the step failed with
\* json.JSONDecodeError, the one exception the steps catch (lines 119, 126,
\* 141); any other exception leaves the chain
FirstOk(r, rest) == IF r.ok \/ Raised(r) THEN r ELSE rest

\* what follows a failed strict parse in claude_adapter.py (fence branch)
\* and ollama_adapter.py (fence branch, brace branch)
AfterStrict(adapter, text) ==
    IF HasJsonFence(text) THEN FenceJson(text)
    ELSE IF adapter = "ollama" /\ HasBraces(text) THEN BraceSpan(text)
    ELSE ParseFail

\* the parsing of extract_from_text of each adapter: safe_json_parse
\* (gemini_adapter.py lines 103-163) returns the value of the first of its
\* strategies that succeeds
adapter_parse(adapter, text) ==
    FirstOk(Strategy1(text),
            IF adapter = "gemini"
            THEN FirstOk(Strategy2(text), FirstOk(Strategy3(text), Strategy4(text)))
            ELSE AfterStrict(adapter, text))

safe_json_parse(text) == adapter_parse("gemini", text)

\* ---- the texts the model parses ----------------------------------------
\* the longest text of arbitrary symbols
MaxRaw == 3

\* the most members of an object and elements of an array
MaxMembers == 1

RECURSIVE SeqsUpTo(_, _)
SeqsUpTo(S, n) ==
    IF n = 0 THEN {<<>>}
    ELSE LET shorter == SeqsUpTo(S, n - 1) IN
         shorter \cup {Append(t, x) : t \in {u \in shorter : Len(u) = n - 1}, x \in S}

RawTexts == SeqsUpTo(Sym, MaxRaw)

Scalars == {JNum(<<"1">>), JStr(<<"a">>), JStr(<<"1">>), JStr(<<>>), JStr(<<"}">>)}
Keys == <<<<"a">>, <<"j">>, <<"a", "1">>>>

\* the objects whose members are named Keys[1], Keys[2], ... in turn
ObjectsOf(vals) ==
    {JObj([i \in 1..Len(vs) |-> <<Keys[i], vs[i]>>]) :
        vs \in SeqsUpTo(vals, MaxMembers)}

ArraysOf(vals) == {JArr(vs) : vs \in SeqsUpTo(vals, MaxMembers)}

Nested == Scalars \cup ArraysOf(Scalars) \cup ObjectsOf(Scalars)

\* well-formed JSON objects, two levels deep
Objects == ObjectsOf(Nested)

Closers == {"}", "]"}

\* texts that begin with a run of brackets too deep to parse
DeepTexts == {<<DEEP>> \o t : t \in SeqsUpTo(Sym, MaxRaw - 2)}

\* the text of an origin: arbitrary symbols; an object's compact text, whole
\* (cut 0) or without its last one or two symbols where these are closers;
\* an object's text in a json fence
ParseOrigins ==
    {[kind |-> "raw", full |-> t, cut |-> 0] : t \in RawTexts}
    \cup {[kind |-> "cut", full |-> Dumps(o), cut |-> 0] : o \in Objects}
    \cup {[kind |-> "cut", full |-> Dumps(o), cut |-> 1] : o \in Objects}
    \cup {[kind |-> "cut", full |-> Dumps(o), cut |-> 2] :
            o \in {x \in Objects : Dumps(x)[Len(Dumps(x)) - 1] \in Closers}}
    \cup {[kind |-> "fenced", full |-> Dumps(o), cut |-> 0] : o \in Objects}
    \cup {[kind |-> "deep", full |-> t, cut |-> 0] : t \in DeepTexts}

OriginText(o) ==
    IF o.kind = "fenced" THEN <<FENCE, JSONTAG>> \o o.full \o <<FENCE>>
    ELSE Slice(o.full, 1, Len(o.full) - o.cut)

Pending == [status |-> "pending", v |-> NoValue]

ParseInit ==
    /\ padapter \in Adapters
    /\ porigin \in ParseOrigins
    /\ ptext = OriginText(porigin)
    /\ pstage = "strict"
    /\ ptried = <<>>
    /\ presult = Pending
    /\ OrchIdle
    /\ AdapterIdle
    /\ AggIdle
    /\ StoreIdle
    /\ SegIdle
    /\ RagIdle

\* one step of the adapter's chain on response_text, r being what it computes
ParseStep(stage, r) ==
    /\ pstage = stage
    /\ ptried' = Append(ptried, stage)
    /\ IF r.ok
       THEN pstage' = "done" /\ presult' = [status |-> "value", v |-> r.v]
       ELSE IF Raised(r)
       THEN pstage' = "done" /\ presult' = [status |-> "raised", v |-> NoValue]
       ELSE IF NextStage(padapter, stage, ptext) = "malformed"
       THEN pstage' = "done" /\ presult' = [status |-> "malformed", v |-> NoValue]
       ELSE pstage' = NextStage(padapter, stage, ptext) /\ presult' = presult
    /\ UNCHANGED <<padapter, porigin, ptext>>
    /\ UNCHANGED restOfParse

\* Strategy 1 of safe_json_parse; json.loads(response_text) of the others
StrictParse == ParseStep("strict", Strategy1(ptext))

\* Strategies 2 to 4 of safe_json_parse
RepairParse == ParseStep("repair", Strategy2(ptext))

FenceRepairParse == ParseStep("fence", Strategy3(ptext))

ShorterCandidatesParse == ParseStep("shorter", Strategy4(ptext))

\* the json-fence branch of claude_adapter.py and ollama_adapter.py
FenceJsonParse == ParseStep("fence_json", FenceJson(ptext))

\* the brace branch of ollama_adapter.py
BraceSpanParse == ParseStep("brace_span", BraceSpan(ptext))

ParseNext ==
    \/ StrictParse
    \/ RepairParse
    \/ FenceRepairParse
    \/ ShorterCandidatesParse
    \/ FenceJsonParse
    \/ BraceSpanParse

SpecParse == ParseInit /\ [][ParseNext]_vars


(***************************************************************************)
(* One adapter's extract_from_text and extract_from_chunks                 *)
(***************************************************************************)
\* the most chunks of a batch
MaxChunks == 2

\* the outputs a model gives: objects, an object without its closing brace,
\* an opening brace alone, and JSON values that are no objects
ChunkTexts ==
    { Dumps(JObj(<<>>)),
      Dumps(JObj(<< <<Keys[1], JNum(<<"1">>)>> >>)),
      Slice(Dumps(JObj(<< <<Keys[1], JNum(<<"1">>)>> >>)), 1, 6),
      <<"{">>,
      Dumps(JArr(<<>>)),
      Dumps(JNum(<<"1">>)),
      Dumps(JStr(<<"a">>)) }

\* what the backend does with a chunk; the Ollama server can also have gone
\* away (is_available is probed on every extract_from_text) or answer with
\* a status other than 200
BackendFaults(adapter) ==
    {"transport_error", "timeout"}
    \cup (IF adapter = "ollama" THEN {"unavailable", "non200"} ELSE {})

BackendOutcomes(adapter) ==
    {[kind |-> k, text |-> <<>>] : k \in BackendFaults(adapter)}
    \cup {[kind |-> "text", text |-> t] : t \in ChunkTexts}

AdapterConfigurations ==
    UNION { {[adapter |-> a, chunks |-> cs] :
                cs \in SeqsUpTo(BackendOutcomes(a), MaxChunks)} : a \in Adapters }

ExtractionFailure(msg) == [success |-> FALSE, error |-> msg, data |-> NoValue]

\* the ExtractionResult of a parse: whatever value the parse returns is the
\* data of a success, json.JSONDecodeError and any other exception become a
\* failure
ExtractionOf(r) ==
    IF r.ok THEN [success |-> TRUE, error |-> "", data |-> r.v]
    ELSE IF Raised(r) THEN ExtractionFailure("extraction failed")
    ELSE ExtractionFailure("Failed to parse JSON response")

\* extract_from_text: every exception of the request and of the parse is
\* caught and becomes a failure result
extract_from_text(adapter, backend) ==
    IF backend.kind = "unavailable" THEN ExtractionFailure("not available")
    ELSE IF backend.kind = "timeout" THEN ExtractionFailure("request timeout")
    ELSE IF backend.kind = "non200" THEN ExtractionFailure("API error")
    ELSE IF backend.kind = "transport_error" THEN ExtractionFailure("extraction failed")
    ELSE ExtractionOf(adapter_parse(adapter, backend.text))

\* _combine_chunk_results starts with data.get('crops') on each result's data:
\* AttributeError unless the data is a dict
CombineRaises(results) == \E i \in 1..Len(results) : ~IsDict(results[i].data)

ChunkIds(results) == [i \in 1..Len(results) |-> results[i].chunk_id]

AdapterInit ==
    /\ \E c \in AdapterConfigurations : aadapter = c.adapter /\ achunks = c.chunks
    /\ aavailable \in BOOLEAN
    /\ acombine \in BOOLEAN
    /\ aidx = 1
    /\ aextractions = <<>>
    /\ aresults = <<>>
    /\ apc = "start"
    /\ abatch = NoBatch
    /\ OrchIdle
    /\ ParseIdle
    /\ AggIdle
    /\ StoreIdle
    /\ SegIdle
    /\ RagIdle

\* extract_from_chunks up to its loop
BeginBatch ==
    /\ apc = "start"
    /\ IF aavailable
       THEN apc' = "loop" /\ abatch' = abatch
       ELSE /\ apc' = "done"
            /\ abatch' = [NoBatch EXCEPT !.kind = "returned", !.error = "not configured"]
    /\ UNCHANGED <<aadapter, aavailable, acombine, achunks, aidx, aextractions, aresults>>
    /\ UNCHANGED restOfAdapter

\* one iteration of the loop over the chunks
ExtractChunk ==
    /\ apc = "loop"
    /\ aidx <= Len(achunks)
    /\ aextractions' = Append(aextractions, extract_from_text(aadapter, achunks[aidx]))
    /\ aresults' = IF aextractions'[aidx].success
                   THEN Append(aresults, [chunk_id |-> aidx,
                                          data |-> aextractions'[aidx].data])
                   ELSE aresults
    /\ aidx' = aidx + 1
    /\ UNCHANGED <<aadapter, aavailable, acombine, achunks, apc, abatch>>
    /\ UNCHANGED restOfAdapter

\* after the loop: no result at all
NoChunkSucceeded ==
    /\ apc = "loop"
    /\ aidx > Len(achunks)
    /\ aresults = <<>>
    /\ apc' = "done"
    /\ abatch' = [NoBatch EXCEPT !.kind = "returned",
                                 !.error = "Failed to extract data from any chunks"]
    /\ UNCHANGED <<aadapter, aavailable, acombine, achunks, aidx, aextractions, aresults>>
    /\ UNCHANGED restOfAdapter

\* after the loop: combine_results, where _combine_chunk_results may raise
ReturnCombined ==
    /\ apc = "loop"
    /\ aidx > Len(achunks)
    /\ aresults # <<>>
    /\ acombine
    /\ apc' = "done"
    /\ abatch' = IF CombineRaises(aresults)
                 THEN [NoBatch EXCEPT !.kind = "raised", !.error = "AttributeError"]
                 ELSE [kind |-> "returned", success |-> TRUE, error |-> "",
                       total_chunks_processed |-> Len(aresults),
                       aggregated |-> ChunkIds(aresults)]
    /\ UNCHANGED <<aadapter, aavailable, acombine, achunks, aidx, aextractions, aresults>>
    /\ UNCHANGED restOfAdapter

\* after the loop: the chunk results as they are
ReturnChunkResults ==
    /\ apc = "loop"
    /\ aidx > Len(achunks)
    /\ aresults # <<>>
    /\ ~acombine
    /\ apc' = "done"
    /\ abatch' = [kind |-> "returned", success |-> TRUE, error |-> "",
                  total_chunks_processed |-> Len(aresults),
                  aggregated |-> ChunkIds(aresults)]
    /\ UNCHANGED <<aadapter, aavailable, acombine, achunks, aidx, aextractions, aresults>>
    /\ UNCHANGED restOfAdapter

AdapterNext ==
    \/ BeginBatch
    \/ ExtractChunk
    \/ NoChunkSucceeded
    \/ ReturnCombined
    \/ ReturnChunkResults

SpecAdapter == AdapterInit /\ [][AdapterNext]_vars


(***************************************************************************)
(* _combine_chunk_results and merge_crop_data                              *)
(*                                                                         *)
(* A crop fragment carries its name, one top-level scalar                  *)
(* (scientific_name; category is merged by the same statement), the soil   *)
(* group with its list (types) and one scalar (ph_range; drainage and the  *)
(* climate group are merged by the same statements), one filtered list     *)
(* field (farming_practices; pests_diseases and recommendations share its  *)
(* loop), regional_data, the yield group with one sub-field (average;      *)
(* planting_info is merged by the same statement) and the nutrients group  *)
(* with one nutrient (nitrogen) whose information is an object with one    *)
(* sub-field (rate).  dict.get makes an absent key, null and an            *)
(* empty group read alike, so a group is given by what get returns.        *)
(* Names are texts over the letters R, C (upper case), r, c and a blank.   *)
(***************************************************************************)
\* the most crop fragments in the chunk results of one call
MaxFragments == 2

None == "<None>"
ScalarValues == {None, "", "x", "y"}

\* bool(v) of a scalar
Truthy(v) == v \notin {None, ""}

\* str.lower()
Lower(s) == [i \in 1..Len(s) |->
                IF s[i] = "R" THEN "r" ELSE IF s[i] = "C" THEN "c" ELSE s[i]]

\* normalize_crop_name (llm_interface.py lines 146-150)
normalize_crop_name(name) == IF name = <<>> THEN <<>> ELSE Strip(Lower(name))

CropNames == {<<"R">>, <<"r", " ">>, <<"C">>, <<" ">>, <<>>}
TypeLists == {<<>>, <<"a">>, <<"a", "b">>, <<"b", "a">>, <<"c">>, <<"a", "a">>}
ItemLists == {<<"a">>, <<"a", "b">>, <<"b", "c">>, <<"c", "a">>, <<"a", "a">>, <<"">>}

\* a nutrients group without the nutrient, and one that has it
NoNutrient == [present |-> FALSE, rate |-> None]
Nutrient(rate) == [present |-> TRUE, rate |-> rate]

BareCrop(name) ==
    [name |-> name, scientific_name |-> None,
     soil_requirements |-> [types |-> <<>>, ph_range |-> None],
     farming_practices |-> <<>>, regional_data |-> <<>>,
     yield_info |-> [average |-> None],
     nutrients |-> [nitrogen |-> NoNutrient]]

\* the crops a model output can hold: a name with a scientific name, or the
\* crop "R" with a soil group, a list of practices or regional data
Fragments ==
    {[BareCrop(n) EXCEPT !.scientific_name = v] : n \in CropNames, v \in ScalarValues}
    \cup {[BareCrop(<<"R">>) EXCEPT !.soil_requirements = [types |-> t, ph_range |-> v]] :
            t \in TypeLists, v \in ScalarValues}
    \cup {[BareCrop(<<"R">>) EXCEPT !.farming_practices = l] : l \in ItemLists}
    \cup {[BareCrop(<<"R">>) EXCEPT !.regional_data = l] : l \in ItemLists}
    \cup {[BareCrop(<<"R">>) EXCEPT !.yield_info = [average |-> v]] : v \in ScalarValues}
    \cup {[BareCrop(<<"R">>) EXCEPT !.nutrients = [nitrogen |-> Nutrient(v)]] :
            v \in ScalarValues}

\* a merge that lets the later fragment's value win
MergeScalarLatest(existing, new) == IF Truthy(new) THEN new ELSE existing

\* if new.get(f) and not existing.get(f): existing[f] = new[f]
MergeScalar(existing, new) == IF Truthy(new) /\ ~Truthy(existing) THEN new ELSE existing

\* one sub-field under existing[g].update({k: v for k, v in new[g].items() if v})
\* (lines 198, 213, 219)
UpdateTruthy(existing, new) == IF Truthy(new) THEN new ELSE existing

\* lines 194-198 for one nutrient whose information is an object
MergeNutrient(existing, new) ==
    IF ~new.present THEN existing
    ELSE IF ~existing.present THEN new
    ELSE Nutrient(UpdateTruthy(existing.rate, new.rate))

\* for item in items: if [item and] item not in existing: existing.append(item)
RECURSIVE AppendMissing(_, _, _)
AppendMissing(existing, items, skip_falsy) ==
    IF items = <<>> THEN existing
    ELSE AppendMissing(
            IF (skip_falsy => Truthy(Head(items))) /\ Head(items) \notin Range(existing)
            THEN Append(existing, Head(items)) ELSE existing,
            Tail(items), skip_falsy)

\* list(set(l)): the distinct items of l in an order the hash seed decides
ListOfSet(l) == {s \in [1..Cardinality(Range(l)) -> Range(l)] : Range(s) = Range(l)}

\* the values er['types'] can take at line 169
TypesAfterMerge(existing, new) ==
    IF new.soil_requirements.types # <<>>
    THEN ListOfSet(existing.soil_requirements.types \o new.soil_requirements.types)
    ELSE {existing.soil_requirements.types}

\* merge_crop_data (llm_interface.py lines 152-229), types being the order
\* list(set(...)) came out in
merge_crop_data(existing, new, types) ==
    [name |-> existing.name,
     scientific_name |-> MergeScalar(existing.scientific_name, new.scientific_name),
     soil_requirements |->
        [types |-> types,
         ph_range |-> MergeScalar(existing.soil_requirements.ph_range,
                                  new.soil_requirements.ph_range)],
     farming_practices |->
        AppendMissing(existing.farming_practices, new.farming_practices, TRUE),
     regional_data |-> AppendMissing(existing.regional_data, new.regional_data, FALSE),
     yield_info |->
        [average |-> UpdateTruthy(existing.yield_info.average, new.yield_info.average)],
     nutrients |->
        [nitrogen |-> MergeNutrient(existing.nutrients.nitrogen, new.nutrients.nitrogen)]]

\* the new entry of lines 247-260: the fragment's own values
NewEntry(crop) == crop

DictKeys(d) == {d[i].key : i \in 1..Len(d)}
DictIndex(d, key) == CHOOSE i \in 1..Len(d) : d[i].key = key

\* _combine_chunk_results entered
AggStart ==
    /\ fragments = <<>>
    /\ crops_dict = <<>>
    /\ crops_list = <<>>
    /\ combine_pc = "loop"

AggInit ==
    /\ AggStart
    /\ OrchIdle
    /\ ParseIdle
    /\ AdapterIdle
    /\ StoreIdle
    /\ SegIdle
    /\ RagIdle

\* lines 238-243: a crop without a name or with a blank name is passed over
SkipCrop ==
    /\ combine_pc = "loop"
    /\ Len(fragments) < MaxFragments
    /\ \E crop \in Fragments :
          /\ normalize_crop_name(crop.name) = <<>>
          /\ fragments' = Append(fragments, crop)
    /\ UNCHANGED <<crops_dict, crops_list, combine_pc>>
    /\ UNCHANGED restOfAgg

\* lines 245-260: the first crop of a key makes the entry
AddCrop ==
    /\ combine_pc = "loop"
    /\ Len(fragments) < MaxFragments
    /\ \E crop \in Fragments :
          /\ normalize_crop_name(crop.name) # <<>>
          /\ normalize_crop_name(crop.name) \notin DictKeys(crops_dict)
          /\ fragments' = Append(fragments, crop)
          /\ crops_dict' = Append(crops_dict, [key |-> normalize_crop_name(crop.name),
                                               rec |-> NewEntry(crop)])
    /\ UNCHANGED <<crops_list, combine_pc>>
    /\ UNCHANGED restOfAgg

\* lines 261-263: a further crop of the key is merged into the entry
MergeCrop ==
    /\ combine_pc = "loop"
    /\ Len(fragments) < MaxFragments
    /\ \E crop \in Fragments :
          /\ normalize_crop_name(crop.name) \in DictKeys(crops_dict)
          /\ fragments' = Append(fragments, crop)
          /\ \E types \in TypesAfterMerge(
                    crops_dict[DictIndex(crops_dict, normalize_crop_name(crop.name))].rec, crop) :
                crops_dict' =
                    [crops_dict EXCEPT
                        ![DictIndex(crops_dict, normalize_crop_name(crop.name))].rec =
                            merge_crop_data(@, crop, types)]
    /\ UNCHANGED <<crops_list, combine_pc>>
    /\ UNCHANGED restOfAgg

\* lines 279-286: crops_list = list(crops_dict.values())
ReturnCrops ==
    /\ combine_pc = "loop"
    /\ crops_list' = [i \in 1..Len(crops_dict) |-> crops_dict[i].rec]
    /\ combine_pc' = "done"
    /\ UNCHANGED <<fragments, crops_dict>>
    /\ UNCHANGED restOfAgg

AggNext ==
    \/ SkipCrop
    \/ AddCrop
    \/ MergeCrop
    \/ ReturnCrops

SpecAgg == AggInit /\ [][AggNext]_vars


(***************************************************************************)
(* TextProcessor.segment_text (finder_system/text_processor.py).           *)
(* A text is a sequence of characters: a letter, a full stop, a space and  *)
(* a newline stand for the word characters, the sentence enders [.!?] and  *)
(* the whitespace of a real text.                                          *)
(***************************************************************************)
NL == "\n"
Whitespace == {" ", NL}
SentenceEnders == {"."}
TextSym == {"a", ".", " ", NL}

\* str.strip()
RECURSIVE LStripWs(_)
LStripWs(s) ==
    IF s # <<>> /\ Head(s) \in Whitespace THEN LStripWs(Tail(s)) ELSE s

RECURSIVE RStripWs(_)
RStripWs(s) ==
    IF s # <<>> /\ s[Len(s)] \in Whitespace
    THEN RStripWs(SubSeq(s, 1, Len(s) - 1)) ELSE s

StripWs(s) == RStripWs(LStripWs(s))

\* text.split('\n\n'): the pieces between the non-overlapping occurrences of
\* two newlines, found from the left; piece is the piece being read
RECURSIVE SplitParagraphs(_, _)
SplitParagraphs(s, piece) ==
    IF s = <<>> THEN <<piece>>
    ELSE IF Len(s) >= 2 /\ s[1] = NL /\ s[2] = NL
         THEN <<piece>> \o SplitParagraphs(SubSeq(s, 3, Len(s)), <<>>)
         ELSE SplitParagraphs(Tail(s), Append(piece, Head(s)))

\* re.split(r'(?<=[.!?])\s+', text): a cut is a whole run of whitespace that
\* follows a sentence ender; the run is dropped
RECURSIVE SplitSentences(_, _)
SplitSentences(s, piece) ==
    IF s = <<>> THEN <<piece>>
    ELSE IF /\ Head(s) \in Whitespace
            /\ piece # <<>>
            /\ piece[Len(piece)] \in SentenceEnders
         THEN <<piece>> \o SplitSentences(LStripWs(s), <<>>)
         ELSE SplitSentences(Tail(s), Append(piece, Head(s)))

\* str.split(): the maximal runs of non-whitespace characters
RECURSIVE SplitWords(_, _)
SplitWords(s, piece) ==
    IF s = <<>> THEN (IF piece = <<>> THEN <<>> ELSE <<piece>>)
    ELSE IF Head(s) \in Whitespace
         THEN (IF piece = <<>> THEN <<>> ELSE <<piece>>) \o SplitWords(Tail(s), <<>>)
         ELSE SplitWords(Tail(s), Append(piece, Head(s)))

Words(s) == SplitWords(s, <<>>)

\* the dictionary appended at lines 78-82, 97-101, 109-113, 144-148, 155-159,
\* 167-171 and 178-182
Chunk(chunk_num, current_chunk) ==
    [chunk_id |-> chunk_num,
     text |-> StripWs(current_chunk),
     token_count |-> Len(current_chunk) \div 4]

\* the loop state of the two segmenters
Loop(chunks, current_chunk, chunk_num) ==
    [chunks |-> chunks, current_chunk |-> current_chunk, chunk_num |-> chunk_num]

\* a flush that forgets the chunk being built
FlushedDropping(st) == Loop(st.chunks, <<>>, st.chunk_num)

\* lines 143-150, 77-85: the chunk being built is closed before an oversized
\* piece is taken apart
Flushed(st) ==
    IF st.current_chunk # <<>>
    THEN Loop(Append(st.chunks, Chunk(st.chunk_num, st.current_chunk)),
              <<>>, st.chunk_num + 1)
    ELSE st

\* lines 153-163: the words of an oversized sentence
RECURSIVE WordLoop(_, _, _)
WordLoop(words, st, max_chars) ==
    IF words = <<>> THEN st
    ELSE IF /\ Len(st.current_chunk) + Len(Head(words)) + 1 > max_chars
            /\ st.current_chunk # <<>>
         THEN WordLoop(Tail(words),
                       Loop(Append(st.chunks, Chunk(st.chunk_num, st.current_chunk)),
                            Head(words), st.chunk_num + 1),
                       max_chars)
         ELSE WordLoop(Tail(words),
                       Loop(st.chunks,
                            IF st.current_chunk # <<>>
                            THEN st.current_chunk \o <<" ">> \o Head(words)
                            ELSE Head(words),
                            st.chunk_num),
                       max_chars)

\* lines 136-175: the sentences of a text
RECURSIVE SentenceLoop(_, _, _)
SentenceLoop(sentences, st, max_chars) ==
    IF sentences = <<>> THEN st
    ELSE IF Len(Head(sentences)) > max_chars
         THEN SentenceLoop(Tail(sentences),
                           WordLoop(Words(Head(sentences)), Flushed(st), max_chars),
                           max_chars)
    ELSE IF /\ Len(st.current_chunk) + Len(Head(sentences)) + 1 > max_chars
            /\ st.current_chunk # <<>>
         THEN SentenceLoop(Tail(sentences),
                           Loop(Append(st.chunks, Chunk(st.chunk_num, st.current_chunk)),
                                Head(sentences), st.chunk_num + 1),
                           max_chars)
         ELSE SentenceLoop(Tail(sentences),
                           Loop(st.chunks,
                                IF st.current_chunk # <<>>
                                THEN st.current_chunk \o <<" ">> \o Head(sentences)
                                ELSE Head(sentences),
                                st.chunk_num),
                           max_chars)

\* lines 108-115, 177-184: the chunk left over when the loop ends
Finished(st) ==
    IF st.current_chunk # <<>>
    THEN Append(st.chunks, Chunk(st.chunk_num, st.current_chunk))
    ELSE st.chunks

segment_by_sentences(s, max_chunk_size) ==
    Finished(SentenceLoop(SplitSentences(s, <<>>), Loop(<<>>, <<>>, 0),
                          max_chunk_size * 4))

\* lines 88-91: the sub-chunks take the next ids of the caller
RECURSIVE Renumbered(_, _)
Renumbered(sub_chunks, chunk_num) ==
    IF sub_chunks = <<>> THEN <<>>
    ELSE <<[Head(sub_chunks) EXCEPT !.chunk_id = chunk_num]>>
         \o Renumbered(Tail(sub_chunks), chunk_num + 1)

\* sub-chunks that keep the ids _segment_by_sentences gave them
AfterSubChunksKeepIds(st, sub_chunks) ==
    Loop(st.chunks \o sub_chunks, <<>>, st.chunk_num + Len(sub_chunks))

AfterSubChunks(st, sub_chunks) ==
    Loop(st.chunks \o Renumbered(sub_chunks, st.chunk_num), <<>>,
         st.chunk_num + Len(sub_chunks))

\* lines 69-105: the paragraphs of a text; len(x) / 4 is a true quotient, so
\* "tokens > max_chunk_size" compares the length with four times the size
RECURSIVE ParagraphLoop(_, _, _)
ParagraphLoop(paragraphs, st, max_chunk_size) ==
    IF paragraphs = <<>> THEN st
    ELSE IF Len(Head(paragraphs)) > max_chunk_size * 4
         THEN ParagraphLoop(Tail(paragraphs),
                            AfterSubChunks(Flushed(st),
                                segment_by_sentences(Head(paragraphs), max_chunk_size)),
                            max_chunk_size)
    ELSE IF /\ Len(st.current_chunk) + Len(Head(paragraphs)) > max_chunk_size * 4
            /\ st.current_chunk # <<>>
         THEN ParagraphLoop(Tail(paragraphs),
                            Loop(Append(st.chunks, Chunk(st.chunk_num, st.current_chunk)),
                                 Head(paragraphs), st.chunk_num + 1),
                            max_chunk_size)
         ELSE ParagraphLoop(Tail(paragraphs),
                            Loop(st.chunks,
                                 IF st.current_chunk # <<>>
                                 THEN st.current_chunk \o <<NL, NL>> \o Head(paragraphs)
                                 ELSE Head(paragraphs),
                                 st.chunk_num),
                            max_chunk_size)

segment_text(s, max_chunk_size) ==
    IF Len(SplitParagraphs(s, <<>>)) = 1 /\ Len(s) > max_chunk_size * 4
    THEN segment_by_sentences(s, max_chunk_size)
    ELSE Finished(ParagraphLoop(SplitParagraphs(s, <<>>), Loop(<<>>, <<>>, 0),
                                max_chunk_size))

\* the texts segmented: every short text, and every short text as the middle
\* paragraph between two ordinary paragraphs
MaxTextLen == 5
MaxChunkSize == 2
ShortParagraphs == {<<"a">>, <<"a", ".">>}
SegTexts ==
    SeqsUpTo(TextSym, MaxTextLen)
    \cup {first \o <<NL, NL>> \o middle \o <<NL, NL>> \o last :
              first \in ShortParagraphs, last \in ShortParagraphs,
              middle \in SeqsUpTo(TextSym, MaxTextLen)}

SegInit ==
    /\ seg_text \in SegTexts
    /\ seg_size \in 1..MaxChunkSize
    /\ seg_chunks = <<>>
    /\ seg_pc = "call"
    /\ OrchIdle
    /\ ParseIdle
    /\ AdapterIdle
    /\ AggIdle
    /\ StoreIdle
    /\ RagIdle

\* chunks = processor.segment_text(text, max_chunk_size)
SegmentText ==
    /\ seg_pc = "call"
    /\ seg_chunks' = segment_text(seg_text, seg_size)
    /\ seg_pc' = "done"
    /\ UNCHANGED <<seg_text, seg_size>>
    /\ UNCHANGED restOfSeg

SegNext == SegmentText

SpecSeg == SegInit /\ [][SegNext]_vars


(***************************************************************************)
(* CropStore.load_all                                                      *)
(*                                                                         *)
(* A document is given by its cropName, a text over the same letters as    *)
(* the crop names above (empty: no cropName); the searchable text of a     *)
(* record is taken to be its name.  Varieties are left out.                *)
(***************************************************************************)
\* the most parent crop documents in the collection
MaxDocs == 2

DocNames == {<<"R">>, <<"r">>, <<"R", " ">>, <<"C">>, <<>>}

\* _create_searchable_text: the parts of the record joined and lowercased
\* (line 379); the name is the one part a record has here
create_searchable_text(rec) == Lower(rec.name)

\* _hash_text: equal exactly for equal texts
hash_text(text) == <<"#">> \o text

\* the embeddings collection before the load: empty, or one entry for the
\* key "r" made from the text "r" or from another text
CacheContents ==
    { {},
      {[crop_key |-> <<"r">>, text_hash |-> hash_text(<<"R">>)]},
      {[crop_key |-> <<"r">>, text_hash |-> hash_text(<<"r">>)]} }

\* self.crop_index[key] = crop_record: a new key goes last, a key already
\* there keeps its place and gets the new record
DictSet(d, key, rec) ==
    IF key \in DictKeys(d)
    THEN [d EXCEPT ![DictIndex(d, key)].rec = rec]
    ELSE Append(d, [key |-> key, rec |-> rec])

\* the loop of load_all (crop_store.py lines 174-213) over the documents
\* ds, the i-th of which has the _id i + done
RECURSIVE IndexDocs(_, _, _)
IndexDocs(index, ds, done) ==
    IF ds = <<>> THEN index
    ELSE IndexDocs(IF Head(ds) = <<>> THEN index
                   ELSE DictSet(index, Lower(Head(ds)),
                                [name |-> Head(ds), doc_id |-> done + 1]),
                   Tail(ds), done + 1)

\* crop_count: the documents that have a cropName
CropCount(ds) == Cardinality({i \in 1..Len(ds) : ds[i] # <<>>})

\* matching on the key alone, whatever the hash
CacheHitsByKey(index, cache) ==
    {index[i].key : i \in {j \in 1..Len(index) :
        \E c \in cache : c.crop_key = index[j].key}}

\* the keys whose cached entry has the hash of the current text (line 114)
CacheHits(index, cache) ==
    {index[i].key : i \in {j \in 1..Len(index) :
        [crop_key |-> index[j].key,
         text_hash |-> hash_text(create_searchable_text(index[j].rec))] \in cache}}

\* update_one(..., upsert=True) for the keys in `stored`
Upserted(cache, index, stored) ==
    {c \in cache : c.crop_key \notin stored}
    \cup {[crop_key |-> index[i].key,
           text_hash |-> hash_text(create_searchable_text(index[i].rec))] :
            i \in {j \in 1..Len(index) : index[j].key \in stored}}

StoreStart ==
    /\ docs \in SeqsUpTo(DocNames, MaxDocs)
    /\ loaded = FALSE
    /\ crop_index = <<>>
    /\ crop_embeddings = {}
    /\ embedding_search_available = FALSE
    /\ load_result = -1
    /\ cached = {}
    /\ embed_calls = {}
    /\ cache_upserts = {}
    /\ last_call = NoCall

StoreInit ==
    /\ StoreStart
    /\ has_api_key \in BOOLEAN
    /\ embeddings_cache \in CacheContents
    /\ OrchIdle
    /\ ParseIdle
    /\ AdapterIdle
    /\ AggIdle
    /\ SegIdle
    /\ RagIdle

\* load_all on a loaded store (lines 147-148)
AlreadyLoaded ==
    /\ loaded
    /\ load_result' = Len(crop_index)
    /\ UNCHANGED <<docs, has_api_key, embeddings_cache, loaded, crop_index,
                   crop_embeddings, embedding_search_available,
                   cached, embed_calls, cache_upserts>>

\* load_all when a collection query raises (lines 224-226)
QueryRaises ==
    /\ ~loaded
    /\ load_result' = 0
    /\ UNCHANGED <<docs, has_api_key, embeddings_cache, loaded, crop_index,
                   crop_embeddings, embedding_search_available,
                   cached, embed_calls, cache_upserts>>

\* load_all without GOOGLE_API_KEY: the index is built, _generate_embeddings
\* returns at once (lines 106-108)
IndexedWithoutEmbeddings ==
    /\ ~loaded
    /\ ~has_api_key
    /\ crop_index' = IndexDocs(crop_index, docs, 0)
    /\ loaded' = TRUE
    /\ load_result' = CropCount(docs)
    /\ UNCHANGED <<docs, has_api_key, embeddings_cache, crop_embeddings,
                   embedding_search_available, cached, embed_calls, cache_upserts>>

\* load_all with GOOGLE_API_KEY: the index is built and _generate_embeddings
\* takes the vectors from the cache where the hash matches and asks the
\* service for the others; the cache may not load (cached is then empty), a
\* request may fail (embedded: those that succeed) and an upsert may fail
\* (stored: those that succeed)
IndexedWithEmbeddings ==
    /\ ~loaded
    /\ has_api_key
    /\ crop_index' = IndexDocs(crop_index, docs, 0)
    /\ loaded' = TRUE
    /\ load_result' = CropCount(docs)
    /\ cached' \in {embeddings_cache, {}}
    /\ embed_calls' = DictKeys(crop_index') \ CacheHits(crop_index', cached')
    /\ \E embedded \in SUBSET embed_calls' :
       \E stored \in SUBSET embedded :
          /\ crop_embeddings' =
                {[key |-> k, from |-> "cache"] : k \in CacheHits(crop_index', cached')}
                \cup {[key |-> k, from |-> "service"] : k \in embedded}
          /\ cache_upserts' = embedded
          /\ embeddings_cache' = Upserted(embeddings_cache, crop_index', stored)
          /\ embedding_search_available' = (crop_embeddings' # {})
    /\ UNCHANGED <<docs, has_api_key>>

\* the find calls a load_all call issued: none on a loaded store, the one
\* that raised, or the two of lines 152-160 and the one of line 80
QueriesIssued ==
    IF loaded THEN 0
    ELSE IF ~loaded' THEN 1
    ELSE IF has_api_key THEN 3 ELSE 2

\* the _embed_text calls a load_all call issued
EmbedsIssued == IF loaded THEN 0 ELSE Cardinality(embed_calls')

LoadCall ==
    [NoCall EXCEPT !.op = "load_all", !.queries = QueriesIssued,
                   !.embeds = EmbedsIssued, !.value = <<load_result'>>]

LoadAgain ==
    /\ last_call = NoCall
    /\ AlreadyLoaded
    /\ last_call' = LoadCall
    /\ UNCHANGED restOfStore

LoadFails ==
    /\ last_call = NoCall
    /\ QueryRaises
    /\ last_call' = LoadCall
    /\ UNCHANGED restOfStore

LoadWithoutEmbeddings ==
    /\ last_call = NoCall
    /\ IndexedWithoutEmbeddings
    /\ last_call' = LoadCall
    /\ UNCHANGED restOfStore

LoadWithEmbeddings ==
    /\ last_call = NoCall
    /\ IndexedWithEmbeddings
    /\ last_call' = LoadCall
    /\ UNCHANGED restOfStore

\* "if not self.loaded: self.load_all()" (lines 454-455, 470-471, 478-479);
\* what load_all returns is dropped
LoadIfNeeded ==
    \/ /\ loaded
       /\ UNCHANGED <<docs, has_api_key, embeddings_cache, loaded, crop_index,
                      crop_embeddings, embedding_search_available, load_result,
                      cached, embed_calls, cache_upserts>>
    \/ QueryRaises
    \/ IndexedWithoutEmbeddings
    \/ IndexedWithEmbeddings

(***************************************************************************)
(* CropStore.search, get_crop, list_crops                                  *)
(***************************************************************************)
MaxTopK == 2

\* the queries searched for: no term, one term, a term twice, two terms,
\* three terms of which one twice, a term no text holds
Queries == {<<>>, <<"R">>, <<"c">>, <<"r", " ", "r">>, <<"r", " ", "c">>,
            <<"c", " ", "c", " ", "r">>, <<"a">>}

\* the cosine similarities a stored vector can have with a query vector,
\* as ranks: below zero, zero, and two values above zero
Similarities == {-1, 0, 1, 2}

\* term in text
Contains(s, term) == Find(s, term, 1) # 0

\* sum(1 for term in query_terms if term in text) (line 396)
RECURSIVE TermsFound(_, _)
TermsFound(query_terms, s) ==
    IF query_terms = <<>> THEN 0
    ELSE (IF Contains(s, Head(query_terms)) THEN 1 ELSE 0)
         + TermsFound(Tail(query_terms), s)

\* the score line 396 gives every entry of the index, in index order
KeywordScores(index, query) ==
    [i \in 1..Len(index) |->
        [key |-> index[i].key,
         score |-> TermsFound(Words(Lower(query)),
                              create_searchable_text(index[i].rec))]]

\* self.crop_embeddings.items(): the vectors taken from the cache come
\* first, those the service gave follow, each in index order
RECURSIVE KeysFrom(_, _, _)
KeysFrom(index, embeddings, origin) ==
    IF index = <<>> THEN <<>>
    ELSE (IF [key |-> Head(index).key, from |-> origin] \in embeddings
          THEN <<Head(index).key>> ELSE <<>>)
         \o KeysFrom(Tail(index), embeddings, origin)

EmbeddingKeys(index, embeddings) ==
    KeysFrom(index, embeddings, "cache") \o KeysFrom(index, embeddings, "service")

\* lines 423-428: the vectors of norm zero are skipped
RECURSIVE VectorScores(_, _, _)
VectorScores(keys, zero_norm, similarity) ==
    IF keys = <<>> THEN <<>>
    ELSE (IF Head(keys) \in zero_norm THEN <<>>
          ELSE <<[key |-> Head(keys), score |-> similarity[Head(keys)]]>>)
         \o VectorScores(Tail(keys), zero_norm, similarity)

\* list.sort(key=score, reverse=True): stable, equal scores keep their order
RECURSIVE InsertByScore(_, _)
InsertByScore(sorted, x) ==
    IF sorted = <<>> THEN <<x>>
    ELSE IF Head(sorted).score >= x.score
         THEN <<Head(sorted)>> \o InsertByScore(Tail(sorted), x)
         ELSE <<x>> \o sorted

\* a sort that leaves the list as it is
Unsorted(sorted, rest) == sorted \o rest

RECURSIVE SortByScore(_, _)
SortByScore(sorted, rest) ==
    IF rest = <<>> THEN sorted
    ELSE SortByScore(InsertByScore(sorted, Head(rest)), Tail(rest))

\* results[:top_k] for top_k >= 0
FirstK(rs, top_k) == SubSeq(rs, 1, IF top_k < Len(rs) THEN top_k ELSE Len(rs))

RECURSIVE Positive(_)
Positive(rs) ==
    IF rs = <<>> THEN <<>>
    ELSE (IF Head(rs).score > 0 THEN <<Head(rs)>> ELSE <<>>) \o Positive(Tail(rs))

\* the result dictionaries of lines 398-402 and 435-439
WithCrops(index, rs) ==
    [i \in 1..Len(rs) |->
        [crop |-> index[DictIndex(index, rs[i].key)].rec,
         score |-> rs[i].score,
         name |-> index[DictIndex(index, rs[i].key)].rec.name]]

\* _keyword_search (lines 392-405): positive scores, sorted, cut
keyword_search(index, scored, top_k) ==
    WithCrops(index, FirstK(SortByScore(<<>>, Positive(scored)), top_k))

\* _vector_search (lines 426-441): sorted, cut, positive scores kept
vector_search(index, scored, top_k) ==
    WithCrops(index, Positive(FirstK(SortByScore(<<>>, scored), top_k)))

\* what the vector pass of search had to work with (lines 458-460):
\* embed_query is "unused" when embedding search is not available, else what
\* _embed_query gave: "none", a vector of norm "zero", or a vector ("ok")
\* with the scores of line 426 in scored
NoVector(embed_query) == [embed_query |-> embed_query, scored |-> <<>>]

VectorOutcomes(keys, search_available, similarities) ==
    IF ~search_available THEN {NoVector("unused")}
    ELSE {NoVector("none"), NoVector("zero")}
         \cup {[embed_query |-> "ok",
                scored |-> VectorScores(keys, zero_norm, similarity)] :
                    zero_norm \in SUBSET Range(keys),
                    similarity \in [Range(keys) -> similarities]}

\* a search that returns whatever the vector pass gave
VectorPassAlways(index, vector, top_k) == vector.embed_query = "ok"

\* lines 457-463: the vector pass is returned when it gave a result
VectorPassReturns(index, vector, top_k) ==
    /\ vector.embed_query = "ok"
    /\ vector_search(index, vector.scored, top_k) # <<>>

SearchCall(query, top_k, index, vector) ==
    [NoCall EXCEPT
        !.op = "search", !.arg = query, !.top_k = top_k,
        !.queries = QueriesIssued, !.embeds = EmbedsIssued,
        !.embed_query = vector.embed_query,
        !.pass = IF VectorPassReturns(index, vector, top_k)
                 THEN "vector" ELSE "keyword",
        !.ran = (IF vector.embed_query = "ok" THEN <<"vector">> ELSE <<>>)
                \o (IF VectorPassReturns(index, vector, top_k)
                    THEN <<>> ELSE <<"keyword">>),
        !.vector_results = IF vector.embed_query = "ok"
                           THEN vector_search(index, vector.scored, top_k)
                           ELSE <<>>,
        !.scored = IF VectorPassReturns(index, vector, top_k)
                   THEN vector.scored ELSE KeywordScores(index, query),
        !.results = IF VectorPassReturns(index, vector, top_k)
                    THEN vector_search(index, vector.scored, top_k)
                    ELSE keyword_search(index, KeywordScores(index, query), top_k)]

\* search (lines 443-466) for a query and a top_k out of the given sets
Searched(query, top_k, similarities) ==
    /\ last_call = NoCall
    /\ LoadIfNeeded
    /\ \E vector \in VectorOutcomes(EmbeddingKeys(crop_index', crop_embeddings'),
                                    embedding_search_available', similarities) :
          last_call' = SearchCall(query, top_k, crop_index', vector)

SearchFor(queries, top_ks, similarities) ==
    \E query \in queries, top_k \in top_ks :
        /\ Searched(query, top_k, similarities)
        /\ UNCHANGED restOfStore

Search == SearchFor(Queries, 0..MaxTopK, Similarities)

\* search(query) with the default top_k of line 443
DefaultTopK == 3
SearchDefault == SearchFor({<<"R">>}, {DefaultTopK}, {1})

\* get_crop (lines 468-474): the record under the lowercased name, or None
GetCrop ==
    \E crop_name \in DocNames :
        /\ last_call = NoCall
        /\ LoadIfNeeded
        /\ last_call' =
             [NoCall EXCEPT
                !.op = "get_crop", !.arg = crop_name,
                !.queries = QueriesIssued, !.embeds = EmbedsIssued,
                !.value = IF Lower(crop_name) \in DictKeys(crop_index')
                          THEN <<crop_index'[DictIndex(crop_index', Lower(crop_name))].rec>>
                          ELSE <<>>]
        /\ UNCHANGED restOfStore

\* list_crops (lines 476-481): the names in index order
ListCrops ==
    /\ last_call = NoCall
    /\ LoadIfNeeded
    /\ last_call' =
         [NoCall EXCEPT
            !.op = "list_crops",
            !.queries = QueriesIssued, !.embeds = EmbedsIssued,
            !.value = [i \in 1..Len(crop_index') |-> crop_index'[i].rec.name]]
    /\ UNCHANGED restOfStore

\* the caller has taken what the call returned and may call again
CallReturned ==
    /\ last_call # NoCall
    /\ last_call' = NoCall
    /\ UNCHANGED <<docs, has_api_key, embeddings_cache, loaded, crop_index,
                   crop_embeddings, embedding_search_available, load_result,
                   cached, embed_calls, cache_upserts>>
    /\ UNCHANGED restOfStore

StoreNext ==
    \/ LoadAgain
    \/ LoadFails
    \/ LoadWithoutEmbeddings
    \/ LoadWithEmbeddings
    \/ SearchDefault
    \/ GetCrop
    \/ ListCrops
    \/ CallReturned

SpecStore == StoreInit /\ [][StoreNext]_vars

\* the collections searched: none, one or two documents, two documents in
\* either order, two documents whose keys differ by a blank only
SearchDocs == {<<>>, <<<<"R">>>>, <<<<"R">>, <<"C">>>>, <<<<"C">>, <<"R">>>>,
               <<<<"R">>, <<"R", " ">>>>}

SearchInit ==
    /\ StoreStart
    /\ docs \in SearchDocs
    /\ has_api_key \in BOOLEAN
    /\ embeddings_cache \in CacheContents
    /\ OrchIdle
    /\ ParseIdle
    /\ AdapterIdle
    /\ AggIdle
    /\ SegIdle
    /\ RagIdle

SearchNext ==
    \/ Search
    \/ CallReturned

SpecSearch == SearchInit /\ [][SearchNext]_vars

(***************************************************************************)
(* The two owners of entity records side by side: an aggregation and a     *)
(* store without embedding credential                                      *)
(***************************************************************************)
RecordsInit ==
    /\ AggStart
    /\ StoreStart
    /\ has_api_key = FALSE
    /\ embeddings_cache = {}
    /\ OrchIdle
    /\ ParseIdle
    /\ AdapterIdle
    /\ SegIdle
    /\ RagIdle

RecordsNext ==
    \/ SkipCrop
    \/ AddCrop
    \/ MergeCrop
    \/ ReturnCrops
    \/ LoadAgain
    \/ LoadFails
    \/ LoadWithoutEmbeddings
    \/ CallReturned

SpecRecords == RecordsInit /\ [][RecordsNext]_vars


(***************************************************************************)
(* RAGEngine.chat (chatbot/rag_engine.py).                                 *)
(* A text the code builds with an f-string is the record of its parts: the *)
(* answer has a lead sentence, the error text and the hint when it has     *)
(* them, and the context it ends with; the context is the list of its      *)
(* parts, one per retrieved crop.                                          *)
(***************************************************************************)
\* get_crop_summary (crop_store.py lines 483-573): the heading line with
\* the name, the one line a record of a name has
get_crop_summary(crop) == <<"##">> \o crop.name

\* lines 60-105: one part per search result, joined
ContextOf(search_results) ==
    [i \in 1..Len(search_results) |->
        [title |-> search_results[i].crop.name,
         summary |-> get_crop_summary(search_results[i].crop)]]

CropsUsed(search_results) ==
    [i \in 1..Len(search_results) |-> search_results[i].name]

\* str.lower() of an error text, word by word
LowerWords(msg) ==
    [i \in 1..Len(msg) |->
        IF msg[i] = "Quota" THEN "quota"
        ELSE IF msg[i] = "Rate" THEN "rate" ELSE msg[i]]

\* a hint test that looks at the text as it is
MentionsQuotaAsWritten(error_msg) ==
    \/ Contains(error_msg, <<"quota">>)
    \/ Contains(error_msg, <<"rate", " ", "limit">>)

\* line 156
MentionsQuota(error_msg) ==
    \/ Contains(LowerWords(error_msg), <<"quota">>)
    \/ Contains(LowerWords(error_msg), <<"rate", " ", "limit">>)

\* the texts of the exceptions generate_content raises
ErrorTexts == {<<>>, <<"x">>, <<"x", " ", "Quota">>, <<"rate", " ", "limit">>,
               <<"Rate", " ", "limit">>, <<"rate", "limit">>}

\* what generate_content and response.text do: a text, or an exception
GenerationOutcomes ==
    {[ok |-> TRUE, error |-> <<>>]} \cup {[ok |-> FALSE, error |-> e] : e \in ErrorTexts}

\* the api_key argument: None, the empty string, a key
ApiKeys == {"<None>", "", "caller-key"}

\* lines 115-117 for a caller's key: both calls pass, configure raises, or
\* GenerativeModel raises after configure passed
KeyOutcomes == {"ok", "configure raises", "model raises"}

\* what a chat call meets: the key outcome matters for a caller's key only,
\* the generation outcome only when the key passed
ChatEnvironments ==
    {e \in [api_key : ApiKeys, key_outcome : KeyOutcomes, outcome : GenerationOutcomes] :
        /\ e.api_key \in {"<None>", ""} => e.key_outcome = "ok"
        /\ e.key_outcome # "ok" => e.outcome.ok}

\* lines 53-57
NoInformation ==
    [NoResponse EXCEPT !.answer.lead = "no information"]

\* lines 119-125
InvalidKey(search_results, include_context) ==
    [NoResponse EXCEPT
        !.answer.lead = "invalid key", !.answer.error = <<"key error">>,
        !.crops_used = CropsUsed(search_results),
        !.context = IF include_context THEN ContextOf(search_results) ELSE <<>>,
        !.has_context = include_context,
        !.llm_used = "False",
        !.error = <<"Invalid API key: ", "key error">>]

\* an answer that holds the context only when the context was asked for
RawContextOnRequest(search_results, include_context) ==
    [NoResponse EXCEPT
        !.answer.lead = "found",
        !.answer.context = IF include_context THEN ContextOf(search_results) ELSE <<>>,
        !.crops_used = CropsUsed(search_results),
        !.context = IF include_context THEN ContextOf(search_results) ELSE <<>>,
        !.has_context = include_context,
        !.llm_used = "False"]

\* lines 128-133
RawContext(search_results, include_context) ==
    [NoResponse EXCEPT
        !.answer.lead = "found", !.answer.context = ContextOf(search_results),
        !.crops_used = CropsUsed(search_results),
        !.context = IF include_context THEN ContextOf(search_results) ELSE <<>>,
        !.has_context = include_context,
        !.llm_used = "False"]

\* lines 146-151
Generated(search_results, include_context) ==
    [NoResponse EXCEPT
        !.answer.lead = "generated",
        !.crops_used = CropsUsed(search_results),
        !.context = IF include_context THEN ContextOf(search_results) ELSE <<>>,
        !.has_context = include_context,
        !.llm_used = "True"]

\* lines 153-166
Degraded(search_results, include_context, error_msg) ==
    [NoResponse EXCEPT
        !.answer.lead = "error", !.answer.error = error_msg,
        !.answer.hint = MentionsQuota(error_msg),
        !.answer.context = ContextOf(search_results),
        !.crops_used = CropsUsed(search_results),
        !.context = IF include_context THEN ContextOf(search_results) ELSE <<>>,
        !.has_context = include_context,
        !.error = error_msg]

\* an adapter chosen without looking at the search results
ClientWhateverFound(search_results, api_key, key_outcome, default_client) ==
    IF api_key \notin {"<None>", ""}
    THEN (IF key_outcome = "ok" THEN "caller" ELSE "none")
    ELSE IF default_client THEN "default" ELSE "none"

\* lines 109-133: the adapter generate_content is called on, "none" when
\* chat returns before
ClientToUse(search_results, api_key, key_outcome, default_client) ==
    IF search_results = <<>> THEN "none"
    ELSE IF api_key \notin {"<None>", ""}
         THEN (IF key_outcome = "ok" THEN "caller" ELSE "none")
    ELSE IF default_client THEN "default" ELSE "none"

\* the dictionary chat returns
ChatResponse(search_results, include_context, api_key, key_outcome, default_client, outcome) ==
    IF search_results = <<>> THEN NoInformation
    ELSE IF api_key \notin {"<None>", ""} /\ key_outcome # "ok"
         THEN InvalidKey(search_results, include_context)
    ELSE IF api_key \in {"<None>", ""} /\ ~default_client
         THEN RawContext(search_results, include_context)
    ELSE IF outcome.ok THEN Generated(search_results, include_context)
    ELSE Degraded(search_results, include_context, outcome.error)

\* the credential both constructors configure the genai module with
\* (rag_engine.py line 23, crop_store.py line 41), read from GOOGLE_API_KEY
BackendKey(key_is_set) == IF key_is_set THEN "backend-key" ELSE "none"

\* genai.embed_content of _embed_query (crop_store.py lines 66-70) is given
\* no credential: the request goes out under the one the module holds
QueryEmbedKey(embed_query, key) == IF embed_query = "unused" THEN "unused" ELSE key

\* genai.configure(api_key=api_key) of line 116 sets the key of the module
KeyAfterChat(search_results, api_key, key_outcome, key) ==
    IF search_results # <<>> /\ api_key \notin {"<None>", ""}
       /\ key_outcome # "configure raises"
    THEN api_key ELSE key

\* the queries of a chat: a term no text holds, a term of each of two crops
ChatQueries == {<<"a">>, <<"r", " ", "c">>}

\* RAGEngine.__init__ (lines 15-24) over a store just constructed; both read
\* GOOGLE_API_KEY
ChatInit ==
    /\ StoreStart
    /\ docs \in SearchDocs
    /\ has_api_key \in BOOLEAN
    /\ embeddings_cache \in CacheContents
    /\ client = has_api_key
    /\ genai_key = BackendKey(has_api_key)
    /\ query_embed_key = "unused"
    /\ chat_args = NoChat
    /\ generation = [adapter |-> "none", ok |-> FALSE, error |-> <<>>]
    /\ response = NoResponse
    /\ OrchIdle
    /\ ParseIdle
    /\ AdapterIdle
    /\ AggIdle
    /\ SegIdle

\* chat (lines 30-166), with the search of line 50
Chat ==
    \E query \in ChatQueries, include_context \in BOOLEAN, e \in ChatEnvironments :
        /\ Searched(query, DefaultTopK, {1})
        /\ chat_args' = [query |-> query, include_context |-> include_context,
                         api_key |-> e.api_key]
        /\ response' = ChatResponse(last_call'.results, include_context, e.api_key,
                                    e.key_outcome, client, e.outcome)
        /\ generation' =
             IF ClientToUse(last_call'.results, e.api_key, e.key_outcome, client) = "none"
             THEN [adapter |-> "none", ok |-> FALSE, error |-> <<>>]
             ELSE [adapter |-> ClientToUse(last_call'.results, e.api_key,
                                           e.key_outcome, client),
                   ok |-> e.outcome.ok, error |-> e.outcome.error]
        /\ query_embed_key' = QueryEmbedKey(last_call'.embed_query, genai_key)
        /\ genai_key' = KeyAfterChat(last_call'.results, e.api_key, e.key_outcome,
                                     genai_key)
        /\ UNCHANGED client
        /\ UNCHANGED <<orchVars, parseVars, adapterVars, aggVars, segVars>>

\* the caller has taken the response and may ask again
ChatReturned ==
    /\ last_call # NoCall
    /\ last_call' = NoCall
    /\ UNCHANGED <<docs, has_api_key, embeddings_cache, loaded, crop_index,
                   crop_embeddings, embedding_search_available, load_result,
                   cached, embed_calls, cache_upserts>>
    /\ response' = NoResponse
    /\ generation' = [adapter |-> "none", ok |-> FALSE, error |-> <<>>]
    /\ chat_args' = NoChat
    /\ query_embed_key' = "unused"
    /\ UNCHANGED <<client, genai_key>>
    /\ UNCHANGED <<orchVars, parseVars, adapterVars, aggVars, segVars>>

ChatNext ==
    \/ Chat
    \/ ChatReturned

SpecChat == ChatInit /\ [][ChatNext]_vars

(***************************************************************************)
(* Claims about the Orchestrator (checked under SpecOrch).                 *)
(***************************************************************************)

\* C1: under the failover strategy, a call that finds the pool [P1, P2] with
\* both adapters available, P1's extraction failing and P2's succeeding,
\* returns P2's successful result (max_retries >= 1, availability unchanged
\* during the call); and a later call never invokes an adapter that had
\* failed before that call began.
C1_FailoverHandsOverToSecond ==
    /\ \A p1, p2 \in Adapters :
          ( /\ strategy = "failover"
            /\ pc = "done"
            /\ max_retries >= 1
            /\ entry.pool = <<p1, p2>>
            /\ {p1, p2} \subseteq entry.avail
            /\ entry.stable
            /\ behaviour[p1] # "ok"
            /\ behaviour[p2] = "ok" )
          => (result.success /\ result.provider = p2)
    /\ strategy = "failover"
          => \A i \in 1..Len(invocations) :
                invocations[i].adapter \notin entry.failed

\* C2: under the failover strategy an adapter whose attempt failed is absent
\* from the pool in every later state, is never invoked again (in the same
\* call or a later one), and the pool never gains an adapter.
C2_FailedAdapterGoneForGood ==
    strategy = "failover" =>
        /\ \A a \in failed : a \notin Range(providers)
        /\ \A i \in 1..Len(invocations) : ~invocations[i].failed_before
        /\ calls > 0 => Range(providers) \subseteq Range(entry.pool)

\* C21: whatever the strategy, the pool, max_retries >= 0 and the way the
\* adapters fail (failure result or exception), one extract_from_chunks call
\* invokes adapter extractions at most max_retries + 1 times; while the loop
\* runs, the invocations made so far are exactly the counted attempts and
\* one more iteration is due, so that the call ends after at most
\* max_retries + 1 iterations.
C21_AtMostMaxRetriesPlusOneInvocations ==
    /\ Len(invocations) <= max_retries + 1
    /\ pc = "loop" => (Len(invocations) = attempts /\ attempts <= max_retries)

\* C21 (termination): a call that has entered its loop returns.
C21_CallTerminates == (pc = "loop") ~> (pc = "done")

\* a call that returned after max_retries + 1 > 1 invocations, one of which
\* raised and one of which returned a failure result
C21_Witness ==
    /\ pc = "done"
    /\ max_retries >= 1
    /\ Len(invocations) = max_retries + 1
    /\ \E i \in 1..Len(invocations) : invocations[i].outcome = "raise"
    /\ \E i \in 1..Len(invocations) : invocations[i].outcome = "fail"

\* C22: under round-robin, cost priority and performance priority, a call
\* whose first attempt fails (by a failure result or by an exception) makes
\* no further invocation, leaves the pool as it was at entry and returns the
\* hard failure.
C22_OtherStrategiesStopAfterOneFailure ==
    ( /\ strategy # "failover"
      /\ Len(invocations) >= 1
      /\ invocations[1].outcome # "ok" )
    => /\ Len(invocations) = 1
       /\ providers = entry.pool
       /\ pc = "done"
       /\ result = AllFailed(last_error)
       /\ ~result.success

\* the default of the max_retries parameter
DefaultMaxRetries == 2

\* the adapters that were available when the call began, in pool order
AvailableAtEntry == get_available_providers(entry.pool, entry.avail)

\* C23: under failover with the default max_retries, a call returns a
\* failure only when every adapter that was available at entry has been
\* attempted in this call and has failed; and when the extraction of some
\* adapter available at entry succeeds, the call returns a success.
C23_FailoverExhaustsThePool ==
    ( /\ strategy = "failover"
      /\ pc = "done"
      /\ max_retries = DefaultMaxRetries )
    => /\ ~result.success =>
             \A a \in Range(AvailableAtEntry) :
                \E i \in 1..Len(invocations) :
                   /\ invocations[i].adapter = a
                   /\ invocations[i].outcome # "ok"
       /\ (\E a \in Range(AvailableAtEntry) : behaviour[a] = "ok")
             => result.success

\* C24: a call that begins while no adapter of the pool is available returns
\* the hard failure with provider 'none' and the no-providers error at once:
\* it invokes no adapter extraction and changes neither the pool nor the
\* round-robin cursor; and no other call returns that failure.
C24_NoProviderAvailableAtEntry ==
    [][ (calls' = calls + 1)
        => IF get_available_providers(providers, available) = <<>>
           THEN /\ pc' = "done"
                /\ result' = NoProvidersAvailable
                /\ ~result'.success
                /\ invocations' = <<>>
                /\ providers' = providers
                /\ current_provider_index' = current_provider_index
           ELSE pc' = "loop" ]_vars

\* the same, over the states: while the no-providers failure is the result
\* of the last call, that call has invoked nothing and the pool is the one
\* of its entry
C24_NothingInvoked ==
    (pc = "done" /\ result.provider = "none")
    => /\ invocations = <<>>
       /\ providers = entry.pool
       /\ get_available_providers(entry.pool, entry.avail) = <<>>

\* the second call on a round-robin pool whose only adapter, usable in the
\* first call, has become unavailable
C24_Witness ==
    /\ pc = "done"
    /\ result = NoProvidersAvailable
    /\ providers # <<>>
    /\ current_provider_index > 0
    /\ calls = 2

\* the error an invocation leaves in last_error
ErrorOf(inv) ==
    [kind |-> IF inv.outcome = "fail" THEN "result" ELSE "exception",
     by |-> inv.adapter]

\* C25: a call that found an adapter available at entry and returns a
\* failure returns the all-failed result whose error is the error of the
\* last attempt made (the failed result's error or the exception's text),
\* never an absent one, also when availability changed during the call.
C25_FailureCarriesLastError ==
    ( /\ pc = "done"
      /\ AvailableAtEntry # <<>>
      /\ ~result.success )
    => /\ result.provider = "multiple"
       /\ invocations # <<>>
       /\ result.error = ErrorOf(invocations[Len(invocations)])
       /\ result.error # NoError

\* the position of adapter `a` in the pool (0 when absent)
RECURSIVE IndexIn(_, _)
IndexIn(pool, a) ==
    IF pool = <<>> THEN 0
    ELSE IF Head(pool) = a THEN 1
    ELSE LET k == IndexIn(Tail(pool), a) IN IF k = 0 THEN 0 ELSE k + 1

\* the next available adapter in pool order after `prev`, wrapping around
NextAvailableAfter(pool, avail, prev) ==
    LET k == IndexIn(pool, prev)
        order == SubSeq(pool, k + 1, Len(pool)) \o SubSeq(pool, 1, k)
    IN  get_available_providers(order, avail)[1]

\* the adapters selected so far in the running call
Selected(invs) == [i \in 1..Len(invs) |-> invs[i].adapter]

\* C26: under round-robin, a selection that follows another one in the same
\* call returns the next available adapter in pool order after the adapter
\* selected before (wrapping around) and advances the cursor by one, however
\* availability changed in between; and while the set of n available
\* adapters is fixed, n consecutive selections pick n different adapters.
C26_RoundRobinTakesTurns ==
    [][ ( /\ strategy = "round_robin"
          /\ Len(invocations') = Len(invocations) + 1 )
        => /\ current_provider_index' = current_provider_index + 1
           /\ invocations # <<>> =>
                 invocations'[Len(invocations')].adapter =
                    NextAvailableAfter(providers, available,
                                       invocations[Len(invocations)].adapter)
           /\ (entry.stable /\ Len(invocations') <= Len(AvailableAtEntry))
                 => Cardinality(Range(Selected(invocations')))
                       = Len(invocations') ]_vars

(***************************************************************************)
(* Claims about the parsing of a model output (checked under SpecParse)    *)
(***************************************************************************)
FourStrategies == <<"strict", "repair", "fence", "shorter">>

IsPrefix(s, t) == Len(s) <= Len(t) /\ \A i \in 1..Len(s) : s[i] = t[i]

\* C5: whichever adapter parses, the steps run are the four strategies in
\* their order (strict, repair, fenced block with repair, shorter candidates);
\* a malformed-output failure is reported only after all four have run; a
\* value returned is that of the last step run, every step before it failed,
\* and nothing runs after it.
C5_AllFourStrategiesInOrder ==
    /\ IsPrefix(ptried, FourStrategies)
    /\ presult.status = "malformed" => ptried = FourStrategies
    /\ presult.status = "value" =>
          /\ pstage = "done"
          /\ SameValue(presult.v, RunStage(ptried[Len(ptried)], ptext).v)
          /\ \A i \in 1..(Len(ptried) - 1) : ~RunStage(ptried[i], ptext).ok

\* C6: safe_json_parse of a well-formed object's text without its last one
\* or two closers returns the object itself: the same keys and values.
C6_MissingClosersRepaired ==
    ( /\ padapter = "gemini"
      /\ porigin.kind = "cut"
      /\ porigin.cut \in {1, 2}
      /\ pstage = "done" )
    => /\ presult.status = "value"
       /\ SameValue(presult.v, json_loads(porigin.full).v)

\* C30: safe_json_parse fails only on texts without an opening brace: for
\* every text that holds a "{" the chain of GeminiAdapter returns a value
\* (the chunk is a success), the single brace repairing to the empty object.
C30_BraceAlwaysParses ==
    /\ json_loads(repair_json(<<"{">>)).ok
    /\ json_loads(repair_json(<<"{">>)).v = JObj(<<>>)
    /\ ( /\ padapter = "gemini"
         /\ pstage = "done"
         /\ "{" \in Range(ptext) )
       => /\ presult.status = "value"
          /\ extract_from_text("gemini", [kind |-> "text", text |-> ptext]).success

(***************************************************************************)
(* Claims about one adapter's batch (checked under SpecAdapter)            *)
(***************************************************************************)
Succeeded == {i \in 1..Len(aextractions) : aextractions[i].success}

\* C3: whatever the backend does (transport error, timeout, non-200 status,
\* unparsable output, output that parses to a JSON value that is no object),
\* extract_from_text and extract_from_chunks return a result and never raise,
\* and every failure they return carries a non-empty error.
C3_AdaptersNeverRaise ==
    /\ abatch.kind # "raised"
    /\ \A i \in 1..Len(aextractions) :
          ~aextractions[i].success => aextractions[i].error # ""
    /\ (abatch.kind = "returned" /\ ~abatch.success) => abatch.error # ""

\* C4: the batch of an available adapter fails if and only if no chunk's
\* extraction succeeded; with at least one success it returns success=true,
\* aggregates exactly the chunks that succeeded and reports their number as
\* total_chunks_processed.
C4_BatchSucceedsIffSomeChunkDid ==
    (aavailable /\ apc = "done") =>
        /\ abatch.kind = "returned"
        /\ ~abatch.success <=> Succeeded = {}
        /\ Succeeded # {} =>
              /\ abatch.total_chunks_processed = Cardinality(Succeeded)
              /\ Range(abatch.aggregated) = Succeeded

(***************************************************************************)
(* Claims about the aggregator (checked under SpecAgg)                     *)
(***************************************************************************)
\* the fragments folded into the entry of `key`, in fragment order
FragmentsOf(key) ==
    SelectSeqIn(fragments, {f \in Range(fragments) : normalize_crop_name(f.name) = key})

\* the first value of a non-empty sequence that satisfies Keep, else dflt
FirstIn(vals, Keep, dflt) ==
    IF \E i \in 1..Len(vals) : vals[i] \in Keep
    THEN vals[CHOOSE i \in 1..Len(vals) :
                 vals[i] \in Keep /\ \A j \in 1..(i - 1) : vals[j] \notin Keep]
    ELSE dflt

ScientificNames(fs) == [i \in 1..Len(fs) |-> fs[i].scientific_name]
PhRanges(fs) == [i \in 1..Len(fs) |-> fs[i].soil_requirements.ph_range]

\* the records the caller gets: the entries while combining, the list after
RecordsHeld ==
    {[key |-> crops_dict[i].key, rec |-> crops_dict[i].rec] : i \in 1..Len(crops_dict)}
    \cup {[key |-> crops_dict[i].key, rec |-> crops_list[i]] : i \in 1..Len(crops_list)}

\* C7 (as stated): each scalar field of a merged record holds the first
\* non-null value among the fragments of its key, in fragment order.
C7_ScalarIsFirstNonNull ==
    \A e \in RecordsHeld :
        /\ e.rec.scientific_name =
              FirstIn(ScientificNames(FragmentsOf(e.key)), ScalarValues \ {None}, None)
        /\ e.rec.soil_requirements.ph_range =
              FirstIn(PhRanges(FragmentsOf(e.key)), ScalarValues \ {None}, None)

\* C7 (amended): each scalar field of a merged record holds the first value
\* that is neither null nor empty among the fragments of its key, in fragment
\* order, and the first fragment's own value when there is none; a value
\* that is neither null nor empty is never replaced by a later fragment's.
C7_ScalarIsFirstNonEmpty ==
    \A e \in RecordsHeld :
        /\ e.rec.scientific_name =
              FirstIn(ScientificNames(FragmentsOf(e.key)), ScalarValues \ {None, ""},
                      FragmentsOf(e.key)[1].scientific_name)
        /\ e.rec.soil_requirements.ph_range =
              FirstIn(PhRanges(FragmentsOf(e.key)), ScalarValues \ {None, ""},
                      FragmentsOf(e.key)[1].soil_requirements.ph_range)

\* two fragments of one key gave different non-empty values for a scalar and
\* the returned record holds the first
C7_Witness ==
    /\ combine_pc = "done"
    /\ \E i \in 1..Len(crops_list) :
          LET fs == FragmentsOf(crops_dict[i].key) IN
             /\ Len(fs) >= 2
             /\ Truthy(fs[1].scientific_name)
             /\ Truthy(fs[2].scientific_name)
             /\ fs[1].scientific_name # fs[2].scientific_name
             /\ crops_list[i].scientific_name = fs[1].scientific_name

\* the distinct items of a list in the order they are first seen
FirstSeen(l) == AppendMissing(<<>>, l, FALSE)

RECURSIVE Flatten(_)
Flatten(ls) == IF ls = <<>> THEN <<>> ELSE Head(ls) \o Flatten(Tail(ls))

\* C8: every list field of a merged record holds each distinct value its
\* fragments contributed exactly once, in the order the values were first
\* seen in fragment order (so two disjoint lists give a list of the summed
\* size).
C8_ListsAreFirstSeenUnion ==
    \A e \in RecordsHeld :
        LET fs == FragmentsOf(e.key) IN
           /\ e.rec.farming_practices =
                 FirstSeen(Flatten([i \in 1..Len(fs) |-> fs[i].farming_practices]))
           /\ e.rec.regional_data =
                 FirstSeen(Flatten([i \in 1..Len(fs) |-> fs[i].regional_data]))
           /\ e.rec.soil_requirements.types =
                 FirstSeen(Flatten([i \in 1..Len(fs) |-> fs[i].soil_requirements.types]))

\* C9: folding a fragment into the record made from an identical fragment
\* leaves every field of the record as it was.
C9_MergeWithCopyIsNoOp ==
    ( /\ Len(fragments) = 2
      /\ fragments[1] = fragments[2]
      /\ normalize_crop_name(fragments[1].name) # <<>> )
    => /\ Len(crops_dict) = 1
       /\ crops_dict[1].rec = NewEntry(fragments[1])

Averages(fs) == [i \in 1..Len(fs) |-> fs[i].yield_info.average]

\* the rates of the fragments that name the nutrient
Rates(fs) ==
    LET named == SelectSeqIn(fs, {f \in Range(fs) : f.nutrients.nitrogen.present})
    IN  [i \in 1..Len(named) |-> named[i].nutrients.nitrogen.rate]

\* C27: a sub-field of a nested group (yield_info.average, and likewise
\* planting_info.season; nutrients.nitrogen.rate) of a merged record holds
\* the first value neither null nor empty among the fragments of its key,
\* as the scalar fields of the other groups do: a later fragment's different
\* value does not replace it.
C27_NestedSubFieldKeepsFirst ==
    \A e \in RecordsHeld :
        LET fs == FragmentsOf(e.key) IN
           /\ e.rec.yield_info.average =
                 FirstIn(Averages(fs), ScalarValues \ {None, ""},
                         fs[1].yield_info.average)
           /\ e.rec.nutrients.nitrogen.present =>
                 e.rec.nutrients.nitrogen.rate =
                    FirstIn(Rates(fs), ScalarValues \ {None, ""}, Rates(fs)[1])

(***************************************************************************)
(* Claims about both owners of entity records (checked under SpecRecords)  *)
(***************************************************************************)
\* no two of the names have the same normalized key
DistinctKeys(names) ==
    \A i, j \in 1..Len(names) :
        i # j => normalize_crop_name(names[i]) # normalize_crop_name(names[j])

\* every name that has a key is among the keys held
AllRepresented(names, held) ==
    \A i \in 1..Len(names) :
        normalize_crop_name(names[i]) # <<>> => normalize_crop_name(names[i]) \in held

\* C10: neither the crops list of _combine_chunk_results nor the index of
\* CropStore.load_all holds two records whose names have the same normalized
\* key (lower case, trimmed), and every input record with a name is
\* represented under its normalized key.
C10_OneRecordPerNormalizedKey ==
    /\ DistinctKeys([i \in 1..Len(crops_dict) |-> crops_dict[i].rec.name])
    /\ DistinctKeys([i \in 1..Len(crops_list) |-> crops_list[i].name])
    /\ combine_pc = "done" =>
          AllRepresented([i \in 1..Len(fragments) |-> fragments[i].name],
                         {normalize_crop_name(crops_list[i].name) : i \in 1..Len(crops_list)})
    /\ DistinctKeys([i \in 1..Len(crop_index) |-> crop_index[i].rec.name])
    /\ loaded => AllRepresented(docs, DictKeys(crop_index))

(***************************************************************************)
(* Claims about TextProcessor.segment_text (checked under SpecSeg).        *)
(***************************************************************************)
Paragraphs == SplitParagraphs(seg_text, <<>>)

\* C11: the chunks segment_text returns carry the chunk_id values 0, 1, ...,
\* n-1 in list order, also when an oversized paragraph is split into
\* sub-chunks between ordinary paragraph chunks.
C11_ChunkIdsCountFromZero ==
    seg_pc = "done" =>
        \A i \in 1..Len(seg_chunks) : seg_chunks[i].chunk_id = i - 1

\* an oversized middle paragraph that gave two sub-chunks or more, between
\* two ordinary paragraphs that gave a chunk each
C11_Witness ==
    /\ seg_pc = "done"
    /\ Len(Paragraphs) = 3
    /\ Paragraphs[1] # <<>>
    /\ Paragraphs[3] # <<>>
    /\ Len(Paragraphs[2]) > seg_size * 4
    /\ Len(segment_by_sentences(Paragraphs[2], seg_size)) >= 2
    /\ Len(seg_chunks) = Len(segment_by_sentences(Paragraphs[2], seg_size)) + 2

\* C12: every chunk text is at most max_chunk_size * 4 characters long, the
\* separators put between joined pieces included, unless the chunk is one
\* single word that is itself longer.
C12_ChunkWithinLimit ==
    seg_pc = "done" =>
        \A i \in 1..Len(seg_chunks) :
            \/ Len(seg_chunks[i].text) <= seg_size * 4
            \/ Len(Words(seg_chunks[i].text)) = 1

\* the words of the chunks, in chunk order
RECURSIVE ChunkWords(_)
ChunkWords(chunks) ==
    IF chunks = <<>> THEN <<>>
    ELSE Words(Head(chunks).text) \o ChunkWords(Tail(chunks))

\* C13: the chunk texts taken in chunk_id order hold the same sequence of
\* whitespace-delimited words as the input text: no word is dropped,
\* duplicated or reordered.
C13_NoWordLost ==
    seg_pc = "done" => ChunkWords(seg_chunks) = Words(seg_text)

\* a text whose words went to several chunks, one of them cut out of an
\* oversized sentence word by word
C13_Witness ==
    /\ seg_pc = "done"
    /\ Len(seg_chunks) >= 3
    /\ Len(Words(seg_text)) >= 4
    /\ \E i \in 1..Len(Paragraphs) :
           \E j \in 1..Len(SplitSentences(Paragraphs[i], <<>>)) :
               /\ Len(SplitSentences(Paragraphs[i], <<>>)[j]) > seg_size * 4
               /\ Len(Words(SplitSentences(Paragraphs[i], <<>>)[j])) >= 2

(***************************************************************************)
(* Claims about CropStore.search (checked under SpecSearch).               *)
(***************************************************************************)
\* the record the index holds under a key
RecordOf(key) == crop_index[DictIndex(crop_index, key)].rec

DistinctTerms(query) == Range(Words(Lower(query)))

\* C15: in keyword search the score of an entity is the number of distinct
\* whitespace-delimited query terms that occur in its searchable text; a
\* term the query repeats counts once.
C15_ScoreCountsDistinctTerms ==
    (last_call.op = "search" /\ last_call.pass = "keyword") =>
        \A i \in 1..Len(last_call.scored) :
            last_call.scored[i].score =
                Cardinality({term \in DistinctTerms(last_call.arg) :
                    Contains(create_searchable_text(RecordOf(last_call.scored[i].key)),
                             term)})

\* C28: search returns the keyword scoring's results exactly when embedding
\* search is unavailable, _embed_query gave no vector, or the vector pass
\* gave no result; otherwise it returns the results of the vector pass, which
\* are not empty, and no keyword scoring is run.  The keyword scoring is run
\* in the former cases only, and the vector pass only with a query vector.
C28_KeywordOnlyAsFallback ==
    last_call.op = "search" =>
        /\ last_call.pass \in {"keyword", "vector"}
        /\ last_call.pass = "keyword" <=>
              \/ ~embedding_search_available
              \/ last_call.embed_query = "none"
              \/ last_call.vector_results = <<>>
        /\ last_call.embed_query = "unused" <=> ~embedding_search_available
        /\ last_call.pass = "keyword" =>
              /\ last_call.results =
                    keyword_search(crop_index,
                                   KeywordScores(crop_index, last_call.arg),
                                   last_call.top_k)
              /\ last_call.ran \in {<<"keyword">>, <<"vector", "keyword">>}
        /\ last_call.pass = "vector" =>
              /\ last_call.results = last_call.vector_results
              /\ last_call.results # <<>>
              /\ last_call.ran = <<"vector">>

\* a search whose query vector was obtained and whose vector pass found
\* nothing (no positive similarity), answered by the keyword scoring
C28_Witness ==
    /\ last_call.op = "search"
    /\ last_call.embed_query = "ok"
    /\ last_call.ran = <<"vector", "keyword">>
    /\ last_call.top_k >= 1
    /\ crop_embeddings # {}
    /\ last_call.results # <<>>

\* a search answered by the vector pass although the keyword scoring would
\* have found an entity too
C28_VectorWitness ==
    /\ last_call.op = "search"
    /\ last_call.pass = "vector"
    /\ keyword_search(crop_index, KeywordScores(crop_index, last_call.arg),
                      last_call.top_k) # <<>>

(***************************************************************************)
(* Claims about CropStore.load_all (checked under SpecStore).              *)
(***************************************************************************)
\* C16: once the store is loaded, a further load_all call, direct or through
\* search, get_crop or list_crops, issues no collection query and no
\* embedding request, leaves index, texts and embeddings as they are, and
\* returns the count the loading call returned.
C16_LoadIsIdempotent ==
    [][loaded =>
          /\ last_call'.queries = 0
          /\ last_call'.embeds = 0
          /\ UNCHANGED <<crop_index, crop_embeddings, embeddings_cache>>
          /\ load_result' = load_result]_vars

\* the cache entry that matches the current text of a key
CurrentEntry(index, key) ==
    [crop_key |-> key,
     text_hash |-> hash_text(create_searchable_text(index[DictIndex(index, key)].rec))]

\* C17 as stated: in a load with the credential the service is asked for an
\* entity exactly when the embeddings collection has no entry with the
\* entity's key and the hash of its current text; a matching entry's vector
\* is used, and after a successful request the collection holds the entry
\* with the new hash.
C17_EmbedsExactlyTheCacheMisses ==
    [][(~loaded /\ loaded' /\ has_api_key) =>
          \A key \in DictKeys(crop_index') :
              /\ key \in embed_calls' <=>
                     CurrentEntry(crop_index', key) \notin embeddings_cache
              /\ CurrentEntry(crop_index', key) \in embeddings_cache =>
                     [key |-> key, from |-> "cache"] \in crop_embeddings'
              /\ [key |-> key, from |-> "service"] \in crop_embeddings' =>
                     CurrentEntry(crop_index', key) \in embeddings_cache']_vars

\* C17 amended: the service is asked for an entity exactly when the cache as
\* _load_cached_embeddings returned it (empty when the read failed) has no
\* entry with the entity's key and the hash of its current text; a matching
\* entry's vector is used, and after a successful request an upsert of the
\* entry is issued.
C17_EmbedsExactlyTheReadCacheMisses ==
    (loaded /\ has_api_key) =>
        \A key \in DictKeys(crop_index) :
            /\ key \in embed_calls <=> CurrentEntry(crop_index, key) \notin cached
            /\ CurrentEntry(crop_index, key) \in cached =>
                   [key |-> key, from |-> "cache"] \in crop_embeddings
            /\ [key |-> key, from |-> "service"] \in crop_embeddings <=>
                   key \in cache_upserts
            /\ key \in cache_upserts => key \in embed_calls

\* a load that took one vector from the cache and asked for another, which
\* it then stored
C17_Witness ==
    /\ loaded
    /\ has_api_key
    /\ \E key \in DictKeys(crop_index) : CurrentEntry(crop_index, key) \in cached
    /\ \E key \in cache_upserts : CurrentEntry(crop_index, key) \in embeddings_cache

(***************************************************************************)
(* Claims about RAGEngine.chat (checked under SpecChat).                   *)
(***************************************************************************)
\* a chat call has just returned
ChatDone == last_call.op = "search" /\ response # NoResponse

\* C18: when the search returns no entity, chat returns the fixed
\* no-information answer with an empty entity list and calls no generation
\* adapter, with or without a caller's key and a default adapter.
C18_NothingFoundNothingGenerated ==
    (ChatDone /\ last_call.results = <<>>) =>
        /\ response.answer.lead = "no information"
        /\ response.answer.context = <<>>
        /\ response.crops_used = <<>>
        /\ generation.adapter = "none"

\* nothing found by a chat that came with a caller's key to an engine that
\* has a default adapter
C18_Witness ==
    /\ ChatDone
    /\ last_call.results = <<>>
    /\ chat_args.api_key = "caller-key"
    /\ client

\* C19: when the search returns an entity or more, no caller's key is given
\* and the default adapter is unavailable, chat calls no generation adapter
\* and returns llm_used = false with an answer that holds the summary of
\* every retrieved entity.
C19_NoAdapterRawContext ==
    (/\ ChatDone
     /\ last_call.results # <<>>
     /\ chat_args.api_key \in {"<None>", ""}
     /\ ~client) =>
        /\ generation.adapter = "none"
        /\ response.llm_used = "False"
        /\ \A i \in 1..Len(last_call.results) :
               \E j \in 1..Len(response.answer.context) :
                   response.answer.context[j].summary =
                       get_crop_summary(last_call.results[i].crop)

\* two entities retrieved for a chat that did not ask for the context field
C19_Witness ==
    /\ ChatDone
    /\ Len(last_call.results) = 2
    /\ chat_args.api_key = ""
    /\ ~chat_args.include_context
    /\ ~client
    /\ response.answer.lead = "found"

\* the error text names a quota or a rate limit, in any case of letters
NamesQuotaOrRateLimit(msg) ==
    \/ \E i \in 1..Len(msg) : msg[i] \in {"quota", "Quota"}
    \/ \E i \in 1..(Len(msg) - 2) :
           msg[i] \in {"rate", "Rate"} /\ msg[i + 1] = " " /\ msg[i + 2] = "limit"

\* C20: when the generation call fails, chat returns a response whose
\* answer holds the retrieved context, whose error field is the error text,
\* whose entity list is the retrieved one and which does not say
\* llm_used = true; the hint is there exactly when the error text names a
\* quota or a rate limit; llm_used = true is said only after a generation
\* call that passed.
C20_FailedGenerationDegrades ==
    ChatDone =>
        /\ (generation.adapter # "none" /\ ~generation.ok) =>
               /\ response.answer.lead = "error"
               /\ response.answer.context = ContextOf(last_call.results)
               /\ response.error # <<"<None>">>
               /\ response.error = generation.error
               /\ response.crops_used = CropsUsed(last_call.results)
               /\ response.llm_used # "True"
               /\ response.answer.hint <=> NamesQuotaOrRateLimit(generation.error)
        /\ response.llm_used = "True" =>
               (generation.adapter # "none" /\ generation.ok)

\* a generation call on the default adapter that failed with a quota error
\* written with a capital, after two entities were retrieved
C20_Witness ==
    /\ ChatDone
    /\ Len(last_call.results) = 2
    /\ generation.adapter = "default"
    /\ ~generation.ok
    /\ generation.error = <<"x", " ", "Quota">>
    /\ response.answer.hint

\* C29: a caller's credential stays with the chat request that brought it:
\* every query-embedding request goes out under the backend's own
\* credential, whatever chat requests were served before, and a chat
\* without api_key generates with the default adapter or not at all.
C29_CallerKeyStaysWithItsRequest ==
    /\ query_embed_key \in {"unused", BackendKey(has_api_key)}
    /\ (ChatDone /\ chat_args.api_key \in {"<None>", ""})
          => generation.adapter \in {"none", "default"}

====
